---------------------------- MODULE Spec2Model ----------------------------
(***************************************************************************)
(* Model of the calcapp conductor-sizing core                              *)
(* (backend/app/services/calculation/string_calculator.py and              *)
(* backend/app/services/config_loader.py).                                 *)
(*                                                                         *)
(* Python floats are modelled as exact rationals <<n, d>> with d > 0, kept *)
(* in lowest terms; None is the empty tuple.  Python dicts are functions   *)
(* whose DOMAIN is the key set; strings that the code takes apart          *)
(* (identifiers) are sequences of one-character strings.                   *)
(***************************************************************************)
EXTENDS Integers, Sequences, FiniteSets, TLC

VARIABLES
    SECTIONS_CONFIG,  \* module-level active sections config (global)
    config,           \* the config dict handed to a batch run
    df,               \* the rows of the batch (DataFrame)
    circuit_type,     \* circuit class of the batch
    kind,             \* which batch runner: "strings" | "cn1" | "none"
    results,          \* results list of the running batch
    success_count,
    error_count,
    pc,               \* position of the batch runner / pure call
    string_df,        \* rows of sheet dc_string_circuits (cn1_id, inverter_id)
    call,             \* argument/return record of a pure-function call
    project_normativa, \* content of projects/<name>/normativa.yaml, NO_FILE if none
    files,            \* the other files read and written: panel database, overrides
    procs             \* requests in progress on the override file

vars == <<SECTIONS_CONFIG, config, df, circuit_type, kind, results,
          success_count, error_count, pc, string_df, call, project_normativa,
          files, procs>>

\* os.path.exists(project_normative_file) is false
NO_FILE == [missing |-> TRUE]

-----------------------------------------------------------------------------
(* Exact rational arithmetic standing for Python float arithmetic.         *)

None == <<>>

Abs(x) == IF x < 0 THEN -x ELSE x

RECURSIVE GCD(_, _)
GCD(a, b) == IF b = 0 THEN a ELSE GCD(b, a % b)

R(n, d) ==
    LET s == IF d < 0 THEN -1 ELSE 1
        g == GCD(Abs(n), Abs(d))
    IN  <<(s * n) \div g, (s * d) \div g>>

RInt(k) == <<k, 1>>
RMul(a, b) ==
    LET g1 == GCD(Abs(a[1]), b[2])
        g2 == GCD(Abs(b[1]), a[2])
    IN  R((a[1] \div g1) * (b[1] \div g2), (a[2] \div g2) * (b[2] \div g1))
RDiv(a, b) == RMul(a, IF b[1] < 0 THEN <<-b[2], -b[1]>> ELSE <<b[2], b[1]>>)
RAdd(a, b) == R(a[1] * b[2] + b[1] * a[2], a[2] * b[2])
RSub(a, b) == R(a[1] * b[2] - b[1] * a[2], a[2] * b[2])
RLe(a, b) == a[1] * b[2] <= b[1] * a[2]
RLt(a, b) == a[1] * b[2] < b[1] * a[2]
RGe(a, b) == RLe(b, a)
RGt(a, b) == RLt(b, a)
RAbs(a) == <<Abs(a[1]), a[2]>>

IsRat(x) == Len(x) = 2

\* floor of a rational
RFloor(a) == a[1] \div a[2]

RECURSIVE Pow10(_)
Pow10(k) == IF k = 0 THEN 1 ELSE 10 * Pow10(k - 1)

\* Python round(x, ndigits): nearest multiple of 10^-ndigits, ties to even
round(x, ndigits) ==
    LET p == Pow10(ndigits)
        y == RMul(x, RInt(p))
        f == RFloor(y)
        frac2 == RMul(RSub(y, RInt(f)), RInt(2))   \* twice the fractional part
        q == IF RLt(frac2, RInt(1)) THEN f
             ELSE IF RGt(frac2, RInt(1)) THEN f + 1
             ELSE IF f % 2 = 0 THEN f ELSE f + 1
    IN  R(q, p)

-----------------------------------------------------------------------------
(* Python's sorted() on a list of numbers.                                 *)

RECURSIVE InsertSorted(_, _)
InsertSorted(x, s) ==
    IF s = <<>> THEN <<x>>
    ELSE IF RLe(x, Head(s)) THEN <<x>> \o s
    ELSE <<Head(s)>> \o InsertSorted(x, Tail(s))

RECURSIVE sorted(_)
sorted(s) == IF s = <<>> THEN <<>> ELSE InsertSorted(Head(s), sorted(Tail(s)))

IsAscending(s) == \A i \in 1..(Len(s) - 1) : RLe(s[i], s[i + 1])

SeqRange(s) == {s[i] : i \in 1..Len(s)}

-----------------------------------------------------------------------------
(* configs/normativas.yaml: the registered normatives.  The file itself is *)
(* data outside the sources; the tables below are representative content   *)
(* in the structure the loaders expect.                                    *)

Deci(x) == R(x, 10)
Pct(x) == R(x, 100)

\* a grouping-table key: the count n, and whether it is written "n+"
GKey(n, plus) == <<n, plus>>

IEC_NORMATIVA ==
    [ name |-> "IEC",
      correction_factors |-> [isc_safety_factor |-> R(5, 4), parallel_strings |-> 1],
      cable |-> [material |-> "copper"],
      installation |-> [method |-> "buried", layout |-> "single_layer"],
      temperature_correction |->
          [ambient_design |-> 30,
           values |-> (30 :> RInt(1) @@ 40 :> Pct(90) @@ 50 :> Pct(80))],
      grouping_factors |->
          ("buried" :>
               ("single_layer" :>
                    [values |-> (GKey(1, FALSE) :> Pct(80) @@ GKey(2, FALSE) :> Pct(75)
                                 @@ GKey(4, TRUE) :> Pct(60))]
                @@ "multilayer" :>
                    [values |-> (GKey(1, FALSE) :> Pct(70) @@ GKey(3, FALSE) :> Pct(65))])
           @@ "conduit" :>
               ("values" :> (GKey(1, FALSE) :> RInt(1) @@ GKey(2, FALSE) :> Pct(80)))),
      voltage_drop |-> [max_percentage |-> R(3, 2), reference_voltage |-> RInt(1500)],
      standard_sections |->
          ("dc_strings" :> <<Deci(15), Deci(25), RInt(4)>>
           @@ "level_1_dc" :> <<RInt(4), RInt(6)>>
           @@ "ac_circuits" :> <<Deci(25), RInt(4)>>) ]

NEC_NORMATIVA ==
    [ name |-> "NEC",
      correction_factors |-> [isc_safety_factor |-> R(25, 16), parallel_strings |-> 2],
      cable |-> [material |-> "copper"],
      installation |-> [method |-> "conduit", layout |-> "single_layer"],
      temperature_correction |->
          [ambient_design |-> 30,
           values |-> (30 :> RInt(1) @@ 40 :> Pct(92) @@ 50 :> Pct(84))],
      grouping_factors |->
          ("conduit" :>
               ("values" :> (GKey(1, FALSE) :> RInt(1) @@ GKey(2, FALSE) :> Pct(80)
                             @@ GKey(4, TRUE) :> Pct(70)))),
      voltage_drop |-> [max_percentage |-> RInt(3), reference_voltage |-> RInt(1000)],
      standard_sections |->
          ("dc_strings" :> <<RInt(2), Deci(33), Deci(53)>>
           @@ "level_1_dc" :> <<Deci(53), Deci(84)>>
           @@ "ac_circuits" :> <<Deci(33), Deci(53)>>
           @@ "mv_circuits" :> <<RInt(35)>>
           @@ "cn1_inverter" :> <<Deci(84), Deci(133)>>) ]

NORMATIVAS == ("IEC" :> IEC_NORMATIVA @@ "NEC" :> NEC_NORMATIVA)

\* dict.get(key, default)
Get(d, k, default) == IF k \in DOMAIN d THEN d[k] ELSE default

(* load_sections_config: the commercial catalogs of one normative, each    *)
(* sorted ascending; an unregistered name silently becomes "IEC".          *)
SectionsOf(normativa_used, sections) ==
    [ normativa_used |-> normativa_used,
      catalogs |->
          ("dc_strings" :> sorted(sections["dc_strings"])
           @@ "level_1_dc" :> sorted(sections["level_1_dc"])
           @@ "ac_circuits" :> sorted(sections["ac_circuits"])
           @@ "mv_circuits" :> sorted(Get(sections, "mv_circuits", <<>>))
           @@ "cn1_inverter" :>
                 sorted(Get(sections, "cn1_inverter", sections["level_1_dc"]))) ]

load_sections_config(normativa) ==
    LET used == IF normativa \in DOMAIN NORMATIVAS THEN normativa ELSE "IEC"
    IN  SectionsOf(used, NORMATIVAS[used].standard_sections)

-----------------------------------------------------------------------------
(* The files of the installation and of the one project of the model.      *)

\* configs/panel_database.yaml: panels by model name, with the entry the
\* lookup falls back to
PANEL_DATABASE ==
    ( "JKM-550" :> [electrical_stc |-> [isc |-> RInt(10), voc |-> RInt(50)],
                    power_stc |-> 550]
      @@ "Panel Personalizado" :>
                   [electrical_stc |-> [isc |-> RInt(12), voc |-> RInt(45)],
                    power_stc |-> 500] )

\* the stages an override file can be saved for
STAGES == {"dc_strings", "level_1_dc"}

\* a fresh installation: the panel database, no override of the project
INSTALLED_FILES ==
    [ panels |-> PANEL_DATABASE,
      norm_overrides |-> NO_FILE,
      stage |-> [st \in STAGES |-> NO_FILE] ]

NO_REQUESTS == <<>>

-----------------------------------------------------------------------------
(* get_available_sections / get_commercial_section                         *)

Ok(v) == [raised |-> FALSE, value |-> v]
Raise(e) == [raised |-> TRUE, value |-> e]

get_available_sections(sc, ct) ==
    IF ct \notin DOMAIN sc.catalogs
    THEN Raise("ValueError")
    ELSE Ok(sc.catalogs[ct])

\* index of the first section > theoretical
FirstAtLeastStrict(available, theoretical) ==
    LET hits == {i \in 1..Len(available) : RGt(available[i], theoretical)}
    IN  IF hits = {} THEN 0 ELSE CHOOSE i \in hits : \A j \in hits : i <= j

\* index of the first section >= theoretical in the ascending list, 0 if none
FirstAtLeast(available, theoretical) ==
    LET hits == {i \in 1..Len(available) : RGe(available[i], theoretical)}
    IN  IF hits = {} THEN 0 ELSE CHOOSE i \in hits : \A j \in hits : i <= j

\* no fallback after the scan
no_fallback(available_sections) == None

\* after the scan found nothing: the largest section, None for an empty list
largest_available(available_sections) ==
    IF available_sections # <<>>
    THEN available_sections[Len(available_sections)]
    ELSE None

get_commercial_section(sc, theoretical_section_mm2, ct) ==
    LET avail == get_available_sections(sc, ct)
    IN  IF avail.raised THEN avail
        ELSE LET available_sections == sorted(avail.value)
                 i == FirstAtLeast(available_sections, theoretical_section_mm2)
             IN  IF i # 0 THEN Ok(available_sections[i])
                 ELSE Ok(largest_available(available_sections))

CircuitTypes == {"dc_strings", "level_1_dc", "ac_circuits", "mv_circuits", "cn1_inverter"}

-----------------------------------------------------------------------------
(* Specification SpecSections: get_commercial_section applied to every     *)
(* theoretical section of a bounded grid, under every catalog built from   *)
(* a small universe of section sizes.                                      *)

MaxTheoHalves == 14

SectionUniverse == <<Deci(15), Deci(25), RInt(4), RInt(6)>>

\* the ascending sub-lists of the universe, one per subset of its indices
SubCatalog(I) ==
    LET RECURSIVE pick(_)
        pick(i) == IF i > Len(SectionUniverse) THEN <<>>
                   ELSE (IF i \in I THEN <<SectionUniverse[i]>> ELSE <<>>) \o pick(i + 1)
    IN  pick(1)

CatalogChoices == {SubCatalog(I) : I \in SUBSET (1..Len(SectionUniverse))}

Theoreticals == {R(k, 2) : k \in 1..MaxTheoHalves}

IdleCall == [fn |-> "none"]

InitSections ==
    /\ \E c \in CatalogChoices :
          SECTIONS_CONFIG = SectionsOf("IEC",
              ("dc_strings" :> c @@ "level_1_dc" :> <<RInt(4), RInt(6)>>
               @@ "ac_circuits" :> <<Deci(25), RInt(4)>>))
    /\ config = <<>> /\ df = <<>> /\ circuit_type = "dc_strings" /\ kind = "none"
    /\ results = <<>> /\ success_count = 0 /\ error_count = 0
    /\ pc = "idle" /\ string_df = <<>>
    /\ call = IdleCall
    /\ project_normativa = NO_FILE
    /\ files = INSTALLED_FILES /\ procs = NO_REQUESTS

CallGetCommercialSection ==
    /\ \E t \in Theoreticals, ct \in {"dc_strings", "mv_circuits", "cn1_inverter"} :
          call' = [fn |-> "get_commercial_section", theoretical |-> t, ct |-> ct,
                   ret |-> get_commercial_section(SECTIONS_CONFIG, t, ct).value]
    /\ UNCHANGED <<files, procs, project_normativa, SECTIONS_CONFIG, config, df, circuit_type, kind, results,
                   success_count, error_count, pc, string_df>>

NextSections == CallGetCommercialSection

SpecSections == InitSections /\ [][NextSections]_vars

-----------------------------------------------------------------------------
(* configs/material_properties.yaml (data outside the sources): base       *)
(* resistivity at 20 C in ohm.mm2/m and temperature coefficient per C.     *)

MATERIALS ==
    ("copper" :> [resistivity_20C |-> R(17, 1000), temp_coefficient |-> R(4, 1000)]
     @@ "aluminum" :> [resistivity_20C |-> R(28, 1000), temp_coefficient |-> R(4, 1000)])

get_material_resistivity(material_name, temp_operating) ==
    IF material_name \notin DOMAIN MATERIALS
    THEN Raise("ValueError: material")
    ELSE LET props == MATERIALS[material_name]
             rho_20 == props.resistivity_20C
             alpha == props.temp_coefficient
         IN  Ok(RMul(rho_20, RAdd(RInt(1), RMul(alpha, RInt(temp_operating - 20)))))

-----------------------------------------------------------------------------
(* validate_config_parameters: works on a shallow copy, so writes to the   *)
(* nested voltage_drop dict land in the caller's config too.  Returns the  *)
(* validated copy (or the exception) and the caller's config afterwards.   *)

DEFAULT_MAX_PERCENTAGE == R(3, 2)
DEFAULT_REFERENCE_VOLTAGE == RInt(1500)

\* d[k] = v on a dict
SetKey(d, k, v) == [x \in (DOMAIN d) \cup {k} |-> IF x = k THEN v ELSE d[x]]

\* 0.1 <= max_percentage <= 10.0
pct_in_range(max_percentage) ==
    RLe(Pct(10), max_percentage) /\ RLe(max_percentage, RInt(10))

\* the write of the default 1.5 when max_percentage is out of range
sanitize_max_percentage(voltage_drop) ==
    IF pct_in_range(Get(voltage_drop, "max_percentage", DEFAULT_MAX_PERCENTAGE))
    THEN voltage_drop
    ELSE SetKey(voltage_drop, "max_percentage", DEFAULT_MAX_PERCENTAGE)

\* the write of the default 1500 when reference_voltage <= 0; v_ref is read
\* from the dict as fetched at the top of the function
sanitize_reference_voltage(voltage_drop, written) ==
    IF RLe(Get(voltage_drop, "reference_voltage", DEFAULT_REFERENCE_VOLTAGE), RInt(0))
    THEN SetKey(written, "reference_voltage", DEFAULT_REFERENCE_VOLTAGE)
    ELSE written

sanitized_voltage_drop(voltage_drop) ==
    sanitize_reference_voltage(voltage_drop, sanitize_max_percentage(voltage_drop))

\* the caller's config after the call: its nested dict is the one written
caller_after_validation(cfg) ==
    IF "voltage_drop" \in DOMAIN cfg
    THEN [cfg EXCEPT !.voltage_drop = sanitized_voltage_drop(cfg.voltage_drop)]
    ELSE cfg

\* the copy: shares the nested dict when there is one; otherwise setdefault
\* creates a dict of its own only when a default has to be written
copy_after_voltage_checks(cfg) ==
    IF "voltage_drop" \in DOMAIN cfg THEN caller_after_validation(cfg)
    ELSE IF sanitized_voltage_drop(<<>>) = <<>> THEN cfg
    ELSE SetKey(cfg, "voltage_drop", sanitized_voltage_drop(<<>>))

clamp_parallel_strings(c) ==
    IF Get(c, "number_of_parallel_strings", 1) < 1
    THEN SetKey(c, "number_of_parallel_strings", 1)
    ELSE IF Get(c, "number_of_parallel_strings", 1) > 100
         THEN SetKey(c, "number_of_parallel_strings", 100)
         ELSE c

check_isc(validated, caller) ==
    IF RLe(Get(validated, "isc_ref", RInt(0)), RInt(0))
    THEN [raised |-> TRUE, value |-> "ValueError: isc", caller |-> caller]
    ELSE [raised |-> FALSE, value |-> validated, caller |-> caller]

validate_config_parameters(cfg) ==
    check_isc(clamp_parallel_strings(copy_after_voltage_checks(cfg)),
              caller_after_validation(cfg))

-----------------------------------------------------------------------------
(* get_normativa_config_fixed (base normative only): an unregistered name  *)
(* is replaced by "IEC".                                                   *)

get_normativa_config_fixed(normativa) ==
    IF normativa \in DOMAIN NORMATIVAS THEN NORMATIVAS[normativa] ELSE NORMATIVAS["IEC"]

\* least / greatest element of a non-empty set of integers
MinOf(S) == CHOOSE x \in S : \A y \in S : x <= y
MaxOf(S) == CHOOSE x \in S : \A y \in S : x >= y

\* the keys of S nearest to n; the lowest of them on a tie
NearestKey(S, n) == MinOf({k \in S : \A m \in S : Abs(k - n) <= Abs(m - n)})

(* get_grouping_factor_safe: the table of one method and layout            *)
sub_tables(method_data) ==
    {k \in DOMAIN method_data : k # "values" /\ "values" \in DOMAIN method_data[k]}

resolve_group_table(method_data, layout) ==
    IF layout \in sub_tables(method_data) THEN method_data[layout]["values"]
    ELSE IF "values" \in DOMAIN method_data THEN method_data["values"]
    ELSE IF sub_tables(method_data) # {}
         THEN method_data[CHOOSE k \in sub_tables(method_data) : TRUE]["values"]
         ELSE <<>>

\* thresholds N of the "N+" keys with number_of_circuits >= N
applicable_ranges(group_table, number_of_circuits) ==
    {k[1] : k \in {kk \in DOMAIN group_table : kk[2] /\ number_of_circuits >= kk[1]}}

numeric_keys(group_table) == {k[1] : k \in {kk \in DOMAIN group_table : ~kk[2]}}

\* a range search that takes the lowest applicable threshold
lookup_group_factor_lowest_range(group_table, number_of_circuits) ==
    IF DOMAIN group_table = {} THEN RInt(1)
    ELSE IF GKey(number_of_circuits, FALSE) \in DOMAIN group_table
         THEN group_table[GKey(number_of_circuits, FALSE)]
    ELSE IF applicable_ranges(group_table, number_of_circuits) # {}
         THEN group_table[GKey(MinOf(applicable_ranges(group_table, number_of_circuits)),
                               TRUE)]
    ELSE IF numeric_keys(group_table) # {}
         THEN group_table[GKey(NearestKey(numeric_keys(group_table), number_of_circuits),
                               FALSE)]
    ELSE RInt(1)

lookup_group_factor(group_table, number_of_circuits) ==
    IF DOMAIN group_table = {} THEN RInt(1)
    ELSE IF GKey(number_of_circuits, FALSE) \in DOMAIN group_table
         THEN group_table[GKey(number_of_circuits, FALSE)]
    ELSE IF applicable_ranges(group_table, number_of_circuits) # {}
         THEN group_table[GKey(MaxOf(applicable_ranges(group_table, number_of_circuits)),
                               TRUE)]
    ELSE IF numeric_keys(group_table) # {}
         THEN group_table[GKey(NearestKey(numeric_keys(group_table), number_of_circuits),
                               FALSE)]
    ELSE RInt(1)

get_grouping_factor_safe(normativa_config, number_of_circuits, method, layout) ==
    IF method \notin DOMAIN Get(normativa_config, "grouping_factors", <<>>)
    THEN RInt(1)
    ELSE lookup_group_factor(
             resolve_group_table(normativa_config.grouping_factors[method], layout),
             number_of_circuits)

(* temperature factor lookup of apply_correction_factors                   *)

\* lower keys of the consecutive pairs of sorted keys that bracket the value
bracket_lows(temps, current_ambient) ==
    {t \in temps : t <= current_ambient
                   /\ \E u \in temps : u > t /\ current_ambient <= u
                                       /\ \A w \in temps : ~(t < w /\ w < u)}

next_key(temps, t) == MinOf({u \in temps : u > t})

interpolate(temp_values, temp1, temp2, current_ambient) ==
    RAdd(temp_values[temp1],
         RDiv(RMul(RSub(temp_values[temp2], temp_values[temp1]),
                   RInt(current_ambient - temp1)),
              RInt(temp2 - temp1)))

interpolate_from(temp_values, temp1, current_ambient) ==
    interpolate(temp_values, temp1, next_key(DOMAIN temp_values, temp1), current_ambient)

lookup_temp_factor(temp_values, current_ambient) ==
    IF DOMAIN temp_values = {} THEN RInt(1)
    ELSE IF current_ambient \in DOMAIN temp_values THEN temp_values[current_ambient]
    ELSE IF bracket_lows(DOMAIN temp_values, current_ambient) # {}
         THEN interpolate_from(temp_values,
                               MinOf(bracket_lows(DOMAIN temp_values, current_ambient)),
                               current_ambient)
         ELSE temp_values[NearestKey(DOMAIN temp_values, current_ambient)]

temperature_factor(temp_corr, current_ambient) ==
    lookup_temp_factor(Get(temp_corr, "values", <<>>), current_ambient)

FALLBACK_FACTOR == R(4, 5)     \* 0.8
SAFETY_DIVISOR == R(5, 4)      \* 1.25

\* the three-level defaults of the parameters read from the config
Nested(cfg, section, key, default) == Get(Get(cfg, section, <<>>), key, default)

resolve_current_ambient(cfg, temp_corr) ==
    Get(cfg, "current_ambient",
        Get(Nested(cfg, "correction_factors", "ambient_temperature", <<>>),
            "current_ambient", Get(temp_corr, "ambient_design", 30)))

resolve_method(cfg, normativa_config) ==
    Get(cfg, "method",
        Nested(cfg, "installation", "method",
               Nested(normativa_config, "installation", "method", "conduit")))

resolve_layout(cfg, normativa_config) ==
    Get(cfg, "layout",
        Nested(cfg, "installation", "layout",
               Nested(normativa_config, "installation", "layout", "single_layer")))

\* the final validation of the two factors
checked_temp_factor_unbounded(temp_factor) ==
    IF RLe(temp_factor, RInt(0)) THEN FALLBACK_FACTOR ELSE temp_factor

checked_temp_factor(temp_factor) ==
    IF RLe(temp_factor, RInt(0)) \/ RGt(temp_factor, RInt(2))
    THEN FALLBACK_FACTOR ELSE temp_factor

checked_group_factor(group_factor) ==
    IF RLe(group_factor, RInt(0)) \/ RGt(group_factor, R(6, 5))
    THEN FALLBACK_FACTOR ELSE group_factor

temp_factor_for(cfg, temp_corr) ==
    checked_temp_factor(temperature_factor(temp_corr, resolve_current_ambient(cfg, temp_corr)))

group_factor_for(cfg, normativa_config) ==
    checked_group_factor(
        get_grouping_factor_safe(normativa_config,
                                 Get(cfg, "number_of_parallel_strings", 1),
                                 resolve_method(cfg, normativa_config),
                                 resolve_layout(cfg, normativa_config)))

correct_with(i_nominal, cfg, normativa_config) ==
    RDiv(i_nominal,
         RMul(temp_factor_for(cfg, Get(normativa_config, "temperature_correction", <<>>)),
              group_factor_for(cfg, normativa_config)))

\* a fallback that returns a positive current
apply_correction_factors_magnitude(sc, i_nominal, cfg) ==
    IF RLe(i_nominal, RInt(0))
    THEN RDiv(RAbs(RSub(i_nominal, RInt(1))), SAFETY_DIVISOR)
    ELSE correct_with(i_nominal, cfg, get_normativa_config_fixed(sc.normativa_used))

apply_correction_factors(sc, i_nominal, cfg) ==
    IF RLe(i_nominal, RInt(0))
    THEN RDiv(i_nominal, SAFETY_DIVISOR)          \* the except-branch fallback
    ELSE correct_with(i_nominal, cfg, get_normativa_config_fixed(sc.normativa_used))

-----------------------------------------------------------------------------
(* Python string operations on identifiers (sequences of characters).      *)

UpperOf == ("c" :> "C" @@ "n" :> "N" @@ "i" :> "I" @@ "v" :> "V" @@ "a" :> "A"
            @@ "b" :> "B" @@ "x" :> "X")
LowerOf == ("C" :> "c" @@ "N" :> "n" @@ "I" :> "i" @@ "V" :> "v" @@ "A" :> "a"
            @@ "B" :> "b" @@ "X" :> "x")

upper(s) == [i \in 1..Len(s) |-> IF s[i] \in DOMAIN UpperOf THEN UpperOf[s[i]] ELSE s[i]]
lower(s) == [i \in 1..Len(s) |-> IF s[i] \in DOMAIN LowerOf THEN LowerOf[s[i]] ELSE s[i]]

RECURSIVE lstrip(_, _)
lstrip(s, ch) == IF s # <<>> /\ Head(s) = ch THEN lstrip(Tail(s), ch) ELSE s

RECURSIVE rstrip(_, _)
rstrip(s, ch) == IF s # <<>> /\ s[Len(s)] = ch
                 THEN rstrip(SubSeq(s, 1, Len(s) - 1), ch) ELSE s

strip(s) == rstrip(lstrip(s, " "), " ")

startswith(s, prefix) ==
    Len(s) >= Len(prefix) /\ SubSeq(s, 1, Len(prefix)) = prefix

\* s.replace(old, ""): every non-overlapping occurrence, left to right
RECURSIVE remove_all(_, _)
remove_all(s, old) ==
    IF s = <<>> THEN <<>>
    ELSE IF startswith(s, old) THEN remove_all(SubSeq(s, Len(old) + 1, Len(s)), old)
    ELSE <<Head(s)>> \o remove_all(Tail(s), old)

\* s.zfill(width): zeros on the left up to width, after a leading sign
RECURSIVE zfill(_, _)
zfill(s, width) ==
    IF Len(s) >= width THEN s
    ELSE IF s # <<>> /\ Head(s) \in {"+", "-"}
         THEN <<Head(s)>> \o zfill(Tail(s), width - 1)
         ELSE zfill(<<"0">> \o s, width)

OrZero(s) == IF s = <<>> THEN <<"0">> ELSE s

CN1_UP == <<"C", "N", "1", "-">>
CN1_LO == <<"c", "n", "1", "-">>
INV_UP == <<"I", "N", "V", "-">>
KEY_CN1 == <<"c", "n", "1", "-">>
KEY_INV == <<"-", "i", "n", "v">>
UNKNOWN == <<"U", "N", "K", "N", "O", "W", "N">>

(* the inverter half, written identically in both normalizers              *)
inv_num_of(inverter_id) ==
    LET inv_raw == strip(upper(inverter_id))
    IN  IF startswith(inv_raw, INV_UP)
        THEN OrZero(lstrip(remove_all(inv_raw, INV_UP), "0"))
        ELSE OrZero(lstrip(inverter_id, "0"))

\* a normalizer that sends identifiers without the prefix to "UNKNOWN"
build_mapping_unknown_bucket(cn1_id, inverter_id) ==
    IF startswith(strip(upper(cn1_id)), CN1_UP)
       /\ startswith(strip(upper(inverter_id)), INV_UP)
    THEN KEY_CN1 \o zfill(remove_all(strip(upper(cn1_id)), CN1_UP), 2)
         \o KEY_INV \o inv_num_of(inverter_id)
    ELSE UNKNOWN

(* build_mapping_circuit_id (string-table side): upper-cases before        *)
(* stripping the prefix                                                    *)
build_mapping_circuit_id(cn1_id, inverter_id) ==
    LET cn1_raw == strip(upper(cn1_id))
        cn1_num == IF startswith(cn1_raw, CN1_UP)
                   THEN zfill(remove_all(cn1_raw, CN1_UP), 2)
                   ELSE zfill(cn1_id, 2)
    IN  KEY_CN1 \o cn1_num \o KEY_INV \o inv_num_of(inverter_id)

(* normalize_circuit_id_from_cn1_table (CN1-table side): lower-cases       *)
(* before stripping the prefix                                             *)
normalize_circuit_id_from_cn1_table(cn1_circuit_id, inverter_id) ==
    LET cn1_str == strip(lower(cn1_circuit_id))
        cn1_num == IF startswith(cn1_str, CN1_LO)
                   THEN zfill(remove_all(cn1_str, CN1_LO), 2)
                   ELSE zfill(cn1_circuit_id, 2)
    IN  KEY_CN1 \o cn1_num \o KEY_INV \o inv_num_of(inverter_id)

(* calculate_cn1_parallel_strings: value_counts of the normalized key over *)
(* the rows of sheet dc_string_circuits; {} for an empty sheet             *)
mapping_ids(sdf) ==
    [i \in 1..Len(sdf) |-> build_mapping_circuit_id(sdf[i].cn1_id, sdf[i].inverter_id)]

\* a mapping that records the keys but not how many rows share each
mapping_without_counts(sdf) ==
    [k \in SeqRange(mapping_ids(sdf)) |-> 1]

calculate_cn1_parallel_strings(sdf) ==
    LET ids == mapping_ids(sdf)
    IN  [k \in SeqRange(ids) |-> Cardinality({i \in 1..Len(sdf) : ids[i] = k})]

-----------------------------------------------------------------------------
(* The sizing chain shared by calculate_string_section and                 *)
(* calculate_cn1_section, from the nominal current to the result fields.   *)

MAX_LENGTH_M == 10000

\* a classification without the tolerance band
voltage_status_no_band(v_drop_pct, max_percentage) ==
    IF RLe(v_drop_pct, max_percentage) THEN "OK" ELSE "CRITICAL"

\* voltage_status of a realized drop
voltage_status_of(v_drop_pct, max_percentage) ==
    IF RLe(v_drop_pct, max_percentage) THEN "OK"
    ELSE IF RLe(v_drop_pct, RMul(max_percentage, R(11, 10))) THEN "WARNING"
    ELSE "CRITICAL"

\* if s_comercial_mm2 and s_comercial_mm2 > 0
has_section(s_comercial_mm2) ==
    s_comercial_mm2 # None /\ RGt(s_comercial_mm2, RInt(0))

RoundOrNone(x, nd) == IF x = None THEN None ELSE round(x, nd)

\* adds / overrides fields of a record
Extend(rec, extra) ==
    [k \in (DOMAIN rec) \cup (DOMAIN extra) |-> IF k \in DOMAIN extra THEN extra[k] ELSE rec[k]]

material_of(cfg) == Nested(cfg, "cable", "material", "copper")

temp_operating_of(cfg) ==
    Get(Nested(cfg, "correction_factors", "ambient_temperature", <<>>),
        "current_ambient", 30)

\* 2 * resistivity * length_total
loop_resistivity(resistivity, length_total) ==
    RMul(RMul(RInt(2), resistivity), RInt(length_total))

\* the locals of the branch with a commercial section, once the two
\* quotients by the section are known
drop_fields(v_drop_real, resistance_total, i_adj, v_ref, max_percentage) ==
    [ v_drop_real |-> v_drop_real,
      v_drop_pct |-> RMul(RDiv(v_drop_real, v_ref), RInt(100)),
      resistance_total |-> resistance_total,
      joule_losses |-> RMul(RMul(i_adj, i_adj), resistance_total),
      voltage_status |->
          voltage_status_of(RMul(RDiv(v_drop_real, v_ref), RInt(100)), max_percentage) ]

\* the drop of the loop taken without dividing by the section
electrical_per_mm2(l, s_comercial_mm2) ==
    IF has_section(s_comercial_mm2)
    THEN drop_fields(RMul(loop_resistivity(l.resistivity, l.length_total), l.i_adj),
                     RDiv(loop_resistivity(l.resistivity, l.length_total), s_comercial_mm2),
                     l.i_adj, l.v_ref, l.max_percentage)
    ELSE [ v_drop_real |-> None, v_drop_pct |-> None, resistance_total |-> None,
           joule_losses |-> None, voltage_status |-> "NO_SECTION" ]

\* if s_comercial_mm2 and s_comercial_mm2 > 0: ... else: ...
electrical(l, s_comercial_mm2) ==
    IF has_section(s_comercial_mm2)
    THEN drop_fields(RDiv(RMul(loop_resistivity(l.resistivity, l.length_total), l.i_adj),
                          s_comercial_mm2),
                     RDiv(loop_resistivity(l.resistivity, l.length_total), s_comercial_mm2),
                     l.i_adj, l.v_ref, l.max_percentage)
    ELSE [ v_drop_real |-> None, v_drop_pct |-> None, resistance_total |-> None,
           joule_losses |-> None, voltage_status |-> "NO_SECTION" ]

(* the fields every success record of both runners carries; `exact` keeps  *)
(* the unrounded locals of the function                                    *)
result_fields(l, s_comercial_mm2, e) ==
    [ length_total_m |-> round(RInt(l.length_total), 2),
      i_nominal |-> round(l.i_nominal, 2),
      i_adjusted |-> round(l.i_adj, 2),
      resistivity_ohm_mm2_per_m |-> round(l.resistivity, 6),
      s_teorica_mm2 |-> round(l.s_teorica_mm2, 3),
      s_comercial_mm2 |-> s_comercial_mm2,
      v_drop_real_volts |-> RoundOrNone(e.v_drop_real, 3),
      v_drop_real_pct |-> RoundOrNone(e.v_drop_pct, 3),
      v_drop_max_volts |-> round(l.max_voltage_drop_v, 3),
      joule_losses_w |-> RoundOrNone(e.joule_losses, 2),
      resistance_total_ohm |-> RoundOrNone(e.resistance_total, 6),
      reference_voltage |-> l.v_ref,
      max_vdrop_pct |-> l.max_percentage,
      voltage_status |-> e.voltage_status,
      circuit_type |-> l.ct,
      normativa |-> l.normativa,
      cable_material |-> l.material,
      calculation_status |-> "SUCCESS",
      exact |-> [ i_nominal |-> l.i_nominal,
                  i_adj |-> l.i_adj,
                  s_teorica_mm2 |-> l.s_teorica_mm2,
                  v_drop_real |-> e.v_drop_real,
                  v_drop_pct |-> e.v_drop_pct,
                  max_voltage_drop_v |-> l.max_voltage_drop_v ] ]

\* from the commercial section on; sel is get_commercial_section's outcome
sized_with_selection(l, sel) ==
    IF sel.raised THEN sel
    ELSE Ok(result_fields(l, sel.value, electrical(l, sel.value)))

\* from the theoretical section on
sized_with_theoretical(sc, l) ==
    IF RLe(l.s_teorica_mm2, RInt(0)) THEN Raise("ValueError: section")
    ELSE sized_with_selection(l, get_commercial_section(sc, l.s_teorica_mm2, l.ct))

\* from the drop budget on
sized_with_budget(sc, l) ==
    IF RLe(l.max_voltage_drop_v, RInt(0)) THEN Raise("ValueError: max drop")
    ELSE sized_with_theoretical(sc,
             Extend(l, [ s_teorica_mm2 |->
                            RDiv(RMul(loop_resistivity(l.resistivity, l.length_total),
                                      l.i_adj),
                                 l.max_voltage_drop_v) ]))

\* from the resistivity on; rho is get_material_resistivity's outcome
sized_with_resistivity(sc, cfg, l, rho) ==
    IF rho.raised THEN rho
    ELSE IF "voltage_drop" \notin DOMAIN cfg
            \/ "max_percentage" \notin DOMAIN cfg.voltage_drop
            \/ "reference_voltage" \notin DOMAIN cfg.voltage_drop
    THEN Raise("KeyError")
    ELSE sized_with_budget(sc,
             Extend(l, [ resistivity |-> rho.value,
                         max_percentage |-> cfg.voltage_drop["max_percentage"],
                         v_ref |-> cfg.voltage_drop["reference_voltage"],
                         max_voltage_drop_v |->
                             RMul(cfg.voltage_drop["reference_voltage"],
                                  RDiv(cfg.voltage_drop["max_percentage"], RInt(100))) ]))

(* Returns Raise(e) or Ok(fields), from the nominal current on.  l is the  *)
(* record of the function's locals as they get assigned.                   *)
size_circuit(sc, cfg, ct, i_nominal, length_pos, length_neg) ==
    sized_with_resistivity(sc, cfg,
        [ ct |-> ct,
          normativa |-> sc.normativa_used,
          i_nominal |-> i_nominal,
          i_adj |-> apply_correction_factors(sc, i_nominal, cfg),
          length_total |-> length_pos + length_neg,
          material |-> material_of(cfg) ],
        get_material_resistivity(material_of(cfg), temp_operating_of(cfg)))

\* a length check that lets a zero length through
string_lengths_error_negative_only(length_pos, length_neg) ==
    IF length_pos < 0 \/ length_neg < 0 THEN "ValueError: invalid lengths"
    ELSE IF length_pos > MAX_LENGTH_M \/ length_neg > MAX_LENGTH_M
         THEN "ValueError: excessive lengths"
         ELSE "none"

\* the length check of the string runner, with the upper limit
string_lengths_error(length_pos, length_neg) ==
    IF length_pos <= 0 \/ length_neg <= 0 THEN "ValueError: invalid lengths"
    ELSE IF length_pos > MAX_LENGTH_M \/ length_neg > MAX_LENGTH_M
         THEN "ValueError: excessive lengths"
         ELSE "none"

\* the length check of the CN1 runner
cn1_lengths_error(length_pos, length_neg) ==
    IF length_pos <= 0 \/ length_neg <= 0 THEN "ValueError: invalid lengths" ELSE "none"

\* the record of the except branch of calculate_string_section
string_failure(sc, row, e) ==
    [ string_id |-> row.string_id,
      error |-> e,
      calculation_status |-> "ERROR",
      normativa |-> sc.normativa_used ]

string_record(sc, row, sized) ==
    IF sized.raised THEN string_failure(sc, row, sized.value)
    ELSE Extend(sized.value, [string_id |-> row.string_id])

\* the body of the try block after the config has been validated
string_result(sc, row, vcfg, ct) ==
    IF string_lengths_error(row.length_pos_m, row.length_neg_m) # "none"
    THEN string_failure(sc, row, string_lengths_error(row.length_pos_m, row.length_neg_m))
    ELSE string_record(sc, row,
             size_circuit(sc, vcfg, ct,
                          RMul(vcfg.isc_ref, Get(vcfg, "isc_correction", R(5, 4))),
                          row.length_pos_m, row.length_neg_m))

string_after_validation(sc, row, ct, v) ==
    [ result |-> IF v.raised THEN string_failure(sc, row, v.value)
                 ELSE string_result(sc, row, v.value, ct),
      caller |-> v.caller ]

(* calculate_string_section: [result, caller] where caller is the caller's *)
(* config object after the call.                                           *)
calculate_string_section(sc, row, cfg, ct) ==
    string_after_validation(sc, row, ct, validate_config_parameters(cfg))

\* the record of the except branch of calculate_cn1_section
cn1_failure(sc, row, e) ==
    [ circuit_id |-> row.circuit_id,
      error |-> e,
      calculation_status |-> "ERROR",
      calculation_type |-> "CN1_COMBINED",
      normativa |-> sc.normativa_used ]

\* a lookup whose default is 0
parallel_strings_default_zero(vcfg, normalized_circuit_id) ==
    Get(Get(vcfg, "cn1_parallel_mapping", <<>>), normalized_circuit_id, 0)

\* parallel_mapping.get(normalized_circuit_id, 1)
parallel_strings_of(vcfg, normalized_circuit_id) ==
    Get(Get(vcfg, "cn1_parallel_mapping", <<>>), normalized_circuit_id, 1)

cn1_record(sc, row, isc_base, normalized_circuit_id, parallel_strings, sized) ==
    IF sized.raised THEN cn1_failure(sc, row, sized.value)
    ELSE Extend(sized.value,
                [ circuit_id |-> row.circuit_id,
                  normalized_circuit_id |-> normalized_circuit_id,
                  parallel_strings |-> parallel_strings,
                  isc_base |-> round(isc_base, 2),
                  isc_combined |-> round(RMul(isc_base, RInt(parallel_strings)), 2),
                  calculation_type |-> "CN1_COMBINED" ])

\* from the parallel count on: isc_combined, i_nominal and the sizing chain
cn1_with_parallel(sc, row, vcfg, ct, normalized_circuit_id, parallel_strings) ==
    cn1_record(sc, row, vcfg.isc_ref, normalized_circuit_id, parallel_strings,
               size_circuit(sc, vcfg, ct,
                            RMul(RMul(vcfg.isc_ref, RInt(parallel_strings)),
                                 Get(vcfg, "isc_correction", R(5, 4))),
                            row.length_pos_m, row.length_neg_m))

cn1_with_id(sc, row, vcfg, ct, normalized_circuit_id) ==
    cn1_with_parallel(sc, row, vcfg, ct, normalized_circuit_id,
                      parallel_strings_of(vcfg, normalized_circuit_id))

\* the body of the try block after the config has been validated
cn1_result(sc, row, vcfg, ct) ==
    IF cn1_lengths_error(row.length_pos_m, row.length_neg_m) # "none"
    THEN cn1_failure(sc, row, cn1_lengths_error(row.length_pos_m, row.length_neg_m))
    ELSE cn1_with_id(sc, row, vcfg, ct,
                     normalize_circuit_id_from_cn1_table(row.circuit_id, row.inverter_id))

cn1_after_validation(sc, row, ct, v) ==
    [ result |-> IF v.raised THEN cn1_failure(sc, row, v.value)
                 ELSE cn1_result(sc, row, v.value, ct),
      caller |-> v.caller ]

(* calculate_cn1_section                                                   *)
calculate_cn1_section(sc, row, cfg, ct) ==
    cn1_after_validation(sc, row, ct, validate_config_parameters(cfg))

-----------------------------------------------------------------------------
(* build_calculation_config (panel and base normative merged): the config  *)
(* dict the endpoints hand to the runners.                                 *)

PANEL_ISC == RInt(10)

BaseConfig(normativa) ==
    LET n == NORMATIVAS[normativa]
    IN  [ isc_ref |-> PANEL_ISC,
          isc_correction |-> n.correction_factors.isc_safety_factor,
          number_of_parallel_strings |-> n.correction_factors.parallel_strings,
          cable |-> n.cable,
          installation |-> n.installation,
          correction_factors |->
              [ ambient_temperature |->
                    [ current_ambient |-> n.temperature_correction.ambient_design,
                      values |-> n.temperature_correction.values ],
                grouping |-> n.grouping_factors ],
          voltage_drop |-> n.voltage_drop ]

\* the configs a batch is started with: the IEC config and variations of it
ConfigChoices ==
    LET b == BaseConfig("IEC")
    IN  { b,
          [b EXCEPT !.isc_ref = RInt(0)],
          [b EXCEPT !.voltage_drop = [max_percentage |-> RInt(0),
                                      reference_voltage |-> RInt(1500)]],
          [b EXCEPT !.voltage_drop = [reference_voltage |-> RInt(1500)]],
          [b EXCEPT !.voltage_drop = [max_percentage |-> RInt(12),
                                      reference_voltage |-> RInt(0)]],
          [b EXCEPT !.voltage_drop = [max_percentage |-> RInt(2)]],
          [k \in (DOMAIN b) \ {"voltage_drop"} |-> b[k]],
          [b EXCEPT !.cable = [material |-> "gold"]],
          [b EXCEPT !.isc_correction = RInt(0)],
          [b EXCEPT !.isc_correction = R(-5, 4)],
          [b EXCEPT !.correction_factors.ambient_temperature.current_ambient = 45],
          [b EXCEPT !.number_of_parallel_strings = 3] }

-----------------------------------------------------------------------------
(* Specification Spec: the two batch runners, one row per step.            *)

MaxRows == 2
MaxStringRows == 2

\* (length_pos_m, length_neg_m) of a row
LengthChoices == { <<20, 20>>, <<85, 85>>, <<100, 100>>, <<-5, 10>>, <<10, 0>>,
                   <<10, 10001>> }

SeqsUpTo(S, n) == UNION {[1..k -> S] : k \in 0..n}

StringId(i) == <<"S", i>>

StringBatches ==
    { [i \in 1..Len(ls) |-> [ string_id |-> StringId(i),
                              length_pos_m |-> ls[i][1],
                              length_neg_m |-> ls[i][2] ]] :
      ls \in SeqsUpTo(LengthChoices, MaxRows) }

Id_CN1_01 == <<"C", "N", "1", "-", "0", "1">>
Id_cn1_1  == <<"c", "n", "1", "-", "1">>
Id_cn1_2  == <<"c", "n", "1", "-", "2">>
Id_CN1_2  == <<"C", "N", "1", "-", "2">>
Id_INV_1  == <<"I", "N", "V", "-", "1">>
Id_INV_2  == <<"I", "N", "V", "-", "2">>
Id_INV_01 == <<"I", "N", "V", "-", "0", "1">>

\* rows of sheet dc_string_circuits, as far as the CN1 mapping reads them
StringSheetRows ==
    { [cn1_id |-> Id_CN1_01, inverter_id |-> Id_INV_1],
      [cn1_id |-> Id_CN1_01, inverter_id |-> Id_INV_2],
      [cn1_id |-> Id_CN1_2, inverter_id |-> Id_INV_01] }

StringSheets == SeqsUpTo(StringSheetRows, MaxStringRows)

CN1RowChoices ==
    { [circuit_id |-> Id_cn1_1, inverter_id |-> Id_INV_1, length_pos_m |-> 20, length_neg_m |-> 20],
      [circuit_id |-> Id_cn1_2, inverter_id |-> Id_INV_1, length_pos_m |-> 85, length_neg_m |-> 85],
      [circuit_id |-> Id_cn1_1, inverter_id |-> Id_INV_2, length_pos_m |-> 0, length_neg_m |-> 5] }

CN1Batches == SeqsUpTo(CN1RowChoices, MaxRows)

Init ==
    /\ SECTIONS_CONFIG = load_sections_config("IEC")
    /\ config = <<>> /\ df = <<>> /\ circuit_type = "dc_strings" /\ kind = "none"
    /\ results = <<>> /\ success_count = 0 /\ error_count = 0
    /\ pc = "idle" /\ string_df = <<>>
    /\ call = IdleCall
    /\ project_normativa = NO_FILE
    /\ files = INSTALLED_FILES /\ procs = NO_REQUESTS

(* an endpoint calls calculate_all_strings(df, config, circuit_type)       *)
StartStrings ==
    /\ pc = "idle"
    /\ \E rows \in StringBatches, cfg \in ConfigChoices,
          ct \in {"dc_strings", "mv_circuits", "no_such_type"} :
          /\ df' = rows
          /\ config' = cfg
          /\ circuit_type' = ct
    /\ kind' = "strings"
    /\ results' = <<>> /\ success_count' = 0 /\ error_count' = 0
    /\ pc' = "loop"
    /\ UNCHANGED <<files, procs, project_normativa, SECTIONS_CONFIG, string_df, call>>

(* the CN1 endpoint: enhance_cn1_config_with_parallel_strings, then        *)
(* calculate_all_cn1_circuits(df, enhanced_config, "cn1_inverter")         *)
StartCN1 ==
    /\ pc = "idle"
    /\ \E sdf \in StringSheets, rows \in CN1Batches, cfg \in ConfigChoices :
          /\ string_df' = sdf
          /\ df' = rows
          /\ config' = Extend(cfg, [ cn1_parallel_mapping |->
                                         calculate_cn1_parallel_strings(sdf),
                                     cn1_enhanced |-> TRUE ])
    /\ circuit_type' = "cn1_inverter"
    /\ kind' = "cn1"
    /\ results' = <<>> /\ success_count' = 0 /\ error_count' = 0
    /\ pc' = "loop"
    /\ UNCHANGED <<files, procs, project_normativa, SECTIONS_CONFIG, call>>

\* an insertion at the front
CollectFront(res, r) == <<r>> \o res

\* results.append(result)
Collect(res, r) == Append(res, r)

LoopNotDone == Len(results) < Len(df)

(* one iteration of the loop of calculate_all_strings.  The row function   *)
(* catches every exception itself, so the runner's own except block        *)
(* (FATAL_ERROR) has nothing to catch.                                     *)
StepString ==
    /\ pc = "loop" /\ kind = "strings" /\ LoopNotDone
    /\ \E out \in {calculate_string_section(SECTIONS_CONFIG, df[Len(results) + 1],
                                              config, circuit_type)} :
           /\ results' = Collect(results, out.result)
           /\ config' = out.caller
           /\ IF "error" \notin DOMAIN out.result
              THEN success_count' = success_count + 1 /\ error_count' = error_count
              ELSE error_count' = error_count + 1 /\ success_count' = success_count
    /\ UNCHANGED <<files, procs, project_normativa, SECTIONS_CONFIG, df, circuit_type, kind, pc, string_df, call>>

(* one iteration of the loop of calculate_all_cn1_circuits                 *)
StepCN1 ==
    /\ pc = "loop" /\ kind = "cn1" /\ LoopNotDone
    /\ \E out \in {calculate_cn1_section(SECTIONS_CONFIG, df[Len(results) + 1],
                                           config, circuit_type)} :
           /\ results' = Collect(results, out.result)
           /\ config' = out.caller
           /\ IF "error" \notin DOMAIN out.result
              THEN success_count' = success_count + 1 /\ error_count' = error_count
              ELSE error_count' = error_count + 1 /\ success_count' = success_count
    /\ UNCHANGED <<files, procs, project_normativa, SECTIONS_CONFIG, df, circuit_type, kind, pc, string_df, call>>

(* the loop is exhausted: the runner returns results                       *)
ReturnResults ==
    /\ pc = "loop" /\ ~LoopNotDone
    /\ pc' = "done"
    /\ UNCHANGED <<files, procs, project_normativa, SECTIONS_CONFIG, config, df, circuit_type, kind, results,
                   success_count, error_count, string_df, call>>

Next == StartStrings \/ StartCN1 \/ StepString \/ StepCN1 \/ ReturnResults

Spec == Init /\ [][Next]_vars

IsFailure(r) == "error" \in DOMAIN r
IsSuccess(r) == ~IsFailure(r)

TypeOK ==
    /\ pc \in {"idle", "loop", "mapped", "done"}
    /\ Len(results) <= Len(df)
    /\ success_count + error_count = Len(results)

-----------------------------------------------------------------------------
(* Properties of the batch runners (specification Spec).                   *)

\* the record the row function gives for row i of the batch on its own
RowAlone(i) ==
    IF kind = "strings"
    THEN calculate_string_section(SECTIONS_CONFIG, df[i], config, circuit_type).result
    ELSE calculate_cn1_section(SECTIONS_CONFIG, df[i], config, circuit_type).result

BadLengths(row) == row.length_pos_m <= 0 \/ row.length_neg_m <= 0

\* C2: in a batch run, a row whose positive or negative length is <= 0
\* yields a failure record tagged ERROR, every row of the batch (the others
\* included) yields the record the row function gives for it on its own,
\* and when the run returns the success and failure counts add up to the
\* number of input rows and count the success and failure records.
C2_BatchResilience ==
    /\ \A i \in 1..Len(results) :
          /\ results[i] = RowAlone(i)
          /\ BadLengths(df[i]) => /\ IsFailure(results[i])
                                  /\ results[i].calculation_status = "ERROR"
    /\ pc = "done" =>
          /\ success_count + error_count = Len(df)
          /\ success_count = Cardinality({i \in 1..Len(results) : IsSuccess(results[i])})
          /\ error_count = Cardinality({i \in 1..Len(results) : IsFailure(results[i])})

\* witness: a finished two-row batch whose first row has length -5 and
\* failed, and whose second row succeeded
C2_Witness ==
    /\ pc = "done" /\ kind = "strings" /\ Len(df) = 2
    /\ df[1].length_pos_m = -5
    /\ IsFailure(results[1]) /\ results[1].calculation_status = "ERROR"
    /\ IsSuccess(results[2]) /\ results[2].calculation_status = "SUCCESS"
    /\ success_count = 1 /\ error_count = 1

\* the id field of a row and of a result record, per runner
RowId(row) == IF kind = "strings" THEN row.string_id ELSE row.circuit_id
ResultId(r) == IF kind = "strings" THEN r.string_id ELSE r.circuit_id

\* C3: a batch run returns exactly one result per input row, in input
\* order: the i-th result carries the id of the i-th row, whether the row
\* succeeded or failed.
C3_OrderPreserved ==
    /\ Len(results) <= Len(df)
    /\ pc = "done" => Len(results) = Len(df)
    /\ \A i \in 1..Len(results) : ResultId(results[i]) = RowId(df[i])

\* witness: a finished two-row batch with distinct ids, one row failed and
\* one succeeded
C3_Witness ==
    /\ pc = "done" /\ Len(df) = 2 /\ Len(results) = 2
    /\ RowId(df[1]) # RowId(df[2])
    /\ IsSuccess(results[1]) /\ IsFailure(results[2])

\* C4: for every success result with a commercial section, voltage_status
\* is OK exactly when the realized drop (in percent, unrounded) is <= the
\* maximum drop, WARNING exactly when it is above the maximum and <= 1.1
\* times the maximum, and CRITICAL exactly when it is above 1.1 times the
\* maximum.
C4_StatusClassification ==
    \A i \in 1..Len(results) :
        (IsSuccess(results[i]) /\ results[i].s_comercial_mm2 # None) =>
            LET r == results[i]
                pct == r.exact.v_drop_pct
                max == r.max_vdrop_pct
            IN  /\ r.voltage_status \in {"OK", "WARNING", "CRITICAL"}
                /\ r.voltage_status = "OK" <=> RLe(pct, max)
                /\ r.voltage_status = "WARNING" <=>
                       (RLt(max, pct) /\ RLe(pct, RMul(max, R(11, 10))))
                /\ r.voltage_status = "CRITICAL" <=> RGt(pct, RMul(max, R(11, 10)))

\* witness: one batch with a WARNING and a CRITICAL result
C4_Witness ==
    /\ pc = "done" /\ Len(results) = 2
    /\ IsSuccess(results[1]) /\ results[1].voltage_status = "WARNING"
    /\ IsSuccess(results[2]) /\ results[2].voltage_status = "CRITICAL"

NullableFields(r) ==
    { r.s_comercial_mm2, r.v_drop_real_volts, r.v_drop_real_pct,
      r.resistance_total_ohm, r.joule_losses_w }

\* C5: a success result has voltage_status NO_SECTION if and only if the
\* catalog of its circuit class is empty; in that case commercial section,
\* voltage drop (V and %), resistance and Joule losses are all null, and
\* otherwise none of them is.
C5_NoSectionIffEmptyCatalog ==
    \A i \in 1..Len(results) :
        IsSuccess(results[i]) =>
            LET r == results[i]
                empty == SECTIONS_CONFIG.catalogs[r.circuit_type] = <<>>
            IN  /\ r.voltage_status = "NO_SECTION" <=> empty
                /\ empty => NullableFields(r) = {None}
                /\ ~empty => None \notin NullableFields(r)

\* witness: a success record of the class with the empty catalog
C5_Witness ==
    /\ pc = "done" /\ Len(results) >= 1
    /\ circuit_type = "mv_circuits"
    /\ IsSuccess(results[1]) /\ results[1].voltage_status = "NO_SECTION"
    /\ results[1].s_comercial_mm2 = None

\* the mapping the CN1 runner reads, and the key of row i in it
MappingOf(cfg) == Get(cfg, "cn1_parallel_mapping", <<>>)
KeyOfRow(i) == normalize_circuit_id_from_cn1_table(df[i].circuit_id, df[i].inverter_id)

\* the config with the key of row i entered in the mapping with count 1
WithCountOne(i) ==
    Extend(config, [cn1_parallel_mapping |-> SetKey(MappingOf(config), KeyOfRow(i), 1)])

\* a config the sizing chain accepts: positive isc_ref and isc_correction, a
\* known material and both voltage-drop parameters present
SizableConfig(cfg) ==
    /\ RGt(Get(cfg, "isc_ref", RInt(0)), RInt(0))
    /\ RGt(Get(cfg, "isc_correction", R(5, 4)), RInt(0))
    /\ material_of(cfg) \in DOMAIN MATERIALS
    /\ "voltage_drop" \in DOMAIN cfg
    /\ {"max_percentage", "reference_voltage"} \subseteq DOMAIN cfg.voltage_drop

\* C10: for every CN1 row the current fed to the correction step is
\* isc_ref * parallel count * isc safety factor, the parallel count being
\* the mapping's count for the row's normalized circuit id; a circuit id
\* absent from the mapping is sized exactly as with a count of 1, and
\* yields a success record whenever the row's lengths and the config are
\* valid.
C10_CombinedCurrent ==
    kind = "cn1" =>
      \A i \in 1..Len(results) :
        LET r == results[i]
            absent == KeyOfRow(i) \notin DOMAIN MappingOf(config)
            n == IF absent THEN 1 ELSE MappingOf(config)[KeyOfRow(i)]
        IN  /\ IsSuccess(r) =>
                /\ r.parallel_strings = n
                /\ r.exact.i_nominal =
                       RMul(RMul(config.isc_ref, RInt(n)),
                            Get(config, "isc_correction", R(5, 4)))
                /\ r.exact.i_adj =
                       apply_correction_factors(SECTIONS_CONFIG, r.exact.i_nominal, config)
            /\ absent =>
                /\ r = calculate_cn1_section(SECTIONS_CONFIG, df[i], WithCountOne(i),
                                             circuit_type).result
                /\ (~BadLengths(df[i]) /\ SizableConfig(config)) => IsSuccess(r)

\* witness: a finished batch with a row counted 2 in the mapping and a row
\* absent from it, both sized successfully
C10_Witness ==
    /\ pc = "done" /\ kind = "cn1" /\ Len(results) = 2
    /\ KeyOfRow(1) \in DOMAIN MappingOf(config) /\ MappingOf(config)[KeyOfRow(1)] = 2
    /\ KeyOfRow(2) \notin DOMAIN MappingOf(config)
    /\ IsSuccess(results[1]) /\ results[1].parallel_strings = 2
    /\ IsSuccess(results[2]) /\ results[2].parallel_strings = 1

-----------------------------------------------------------------------------
(* Specification SpecNormalize: the CN1 endpoint on identifiers of every    *)
(* spelling.  enhance_cn1_config_with_parallel_strings builds the mapping   *)
(* from the string sheet, then one CN1 row is sized with it.                *)

MaxSheetRows == 4

Id_CN1_001 == <<"C", "N", "1", "-", "0", "0", "1">>
Id_CN1_1A  == <<"C", "N", "1", "-", "1", "A">>
Id_cn1_1a  == <<"c", "n", "1", "-", "1", "a">>
Id_sp_cn1_1 == <<" ", "c", "n", "1", "-", "1", " ">>
Id_7  == <<"7">>
Id_3  == <<"3">>
Id_03 == <<"0", "3">>

\* rows of sheet dc_string_circuits
NormSheetRows ==
    { [cn1_id |-> Id_CN1_01, inverter_id |-> Id_INV_1],
      [cn1_id |-> Id_CN1_01, inverter_id |-> Id_INV_2],
      [cn1_id |-> Id_sp_cn1_1, inverter_id |-> Id_INV_01],
      [cn1_id |-> Id_CN1_001, inverter_id |-> Id_INV_1],
      [cn1_id |-> Id_CN1_1A, inverter_id |-> Id_INV_1],
      [cn1_id |-> Id_7, inverter_id |-> Id_03] }

NormSheets == SeqsUpTo(NormSheetRows, MaxSheetRows)

\* rows of sheet dc_cn1_circuits
NormCN1Rows ==
    { [circuit_id |-> c[1], inverter_id |-> c[2], length_pos_m |-> 20, length_neg_m |-> 20] :
      c \in { <<Id_cn1_1, Id_INV_1>>, <<Id_CN1_01, Id_INV_2>>, <<Id_cn1_1a, Id_INV_1>>,
              <<Id_CN1_1A, Id_INV_1>>, <<Id_7, Id_3>>, <<Id_cn1_2, Id_INV_1>> } }

InitNormalize ==
    /\ SECTIONS_CONFIG = load_sections_config("IEC")
    /\ config = BaseConfig("IEC")
    /\ df = <<>> /\ circuit_type = "cn1_inverter" /\ kind = "cn1"
    /\ results = <<>> /\ success_count = 0 /\ error_count = 0
    /\ pc = "idle" /\ string_df = <<>>
    /\ call = IdleCall
    /\ project_normativa = NO_FILE
    /\ files = INSTALLED_FILES /\ procs = NO_REQUESTS

(* enhance_cn1_config_with_parallel_strings: the mapping of the sheet is   *)
(* put into a copy of the config                                           *)
EnhanceCN1Config ==
    /\ pc = "idle"
    /\ \E sdf \in NormSheets :
          /\ string_df' = sdf
          /\ config' = Extend(config, [ cn1_parallel_mapping |->
                                            calculate_cn1_parallel_strings(sdf),
                                        cn1_enhanced |-> TRUE ])
    /\ pc' = "mapped"
    /\ UNCHANGED <<files, procs, project_normativa, SECTIONS_CONFIG, df, circuit_type, kind, results, success_count,
                   error_count, call>>

(* calculate_all_cn1_circuits on a sheet of one row                        *)
SizeCN1Row ==
    /\ pc = "mapped"
    /\ \E row \in NormCN1Rows :
          \E out \in {calculate_cn1_section(SECTIONS_CONFIG, row, config, circuit_type)} :
              /\ df' = <<row>>
              /\ results' = Collect(results, out.result)
              /\ config' = out.caller
              /\ IF "error" \notin DOMAIN out.result
                 THEN success_count' = success_count + 1 /\ error_count' = error_count
                 ELSE error_count' = error_count + 1 /\ success_count' = success_count
    /\ pc' = "done"
    /\ UNCHANGED <<files, procs, project_normativa, SECTIONS_CONFIG, circuit_type, kind, string_df, call>>

NextNormalize == EnhanceCN1Config \/ SizeCN1Row

SpecNormalize == InitNormalize /\ [][NextNormalize]_vars

\* the key build_mapping_circuit_id gives row i of the string sheet
StringKey(i) == build_mapping_circuit_id(string_df[i].cn1_id, string_df[i].inverter_id)

RECURSIVE SumCounts(_, _)
SumCounts(m, keys) ==
    IF keys = {} THEN 0
    ELSE LET k == CHOOSE x \in keys : TRUE
         IN  m[k] + SumCounts(m, keys \ {k})

RowsEqualTo(r) == {i \in 1..Len(string_df) : string_df[i] = r}

Key_cn1_01_inv1 == <<"c", "n", "1", "-", "0", "1", "-", "i", "n", "v", "1">>
Key_cn1_01_inv2 == <<"c", "n", "1", "-", "0", "1", "-", "i", "n", "v", "2">>

\* C7: the parallel-string mapping assigns to each normalized (combiner
\* box, inverter) key exactly the number of string rows that normalize to
\* that key, and the counts over all keys sum to the number of string rows;
\* 3 rows CN1-01/INV-1 and 1 row CN1-01/INV-2 give cn1-01-inv1 -> 3 and
\* cn1-01-inv2 -> 1.
C7_ParallelAggregation ==
    pc # "idle" =>
        LET m == MappingOf(config)
        IN  /\ \A i \in 1..Len(string_df) : StringKey(i) \in DOMAIN m
            /\ \A k \in DOMAIN m :
                  m[k] = Cardinality({i \in 1..Len(string_df) : StringKey(i) = k})
            /\ SumCounts(m, DOMAIN m) = Len(string_df)
            /\ ( /\ Len(string_df) = 4
                 /\ Cardinality(RowsEqualTo([cn1_id |-> Id_CN1_01,
                                             inverter_id |-> Id_INV_1])) = 3
                 /\ Cardinality(RowsEqualTo([cn1_id |-> Id_CN1_01,
                                             inverter_id |-> Id_INV_2])) = 1 )
               => (m[Key_cn1_01_inv1] = 3 /\ m[Key_cn1_01_inv2] = 1)

\* witness: the sheet of the example, and the CN1 row cn1-1 / INV-1 sized
\* with the count 3 of its strings
C7_Witness ==
    /\ pc = "done" /\ Len(string_df) = 4
    /\ Cardinality(RowsEqualTo([cn1_id |-> Id_CN1_01, inverter_id |-> Id_INV_1])) = 3
    /\ Cardinality(RowsEqualTo([cn1_id |-> Id_CN1_01, inverter_id |-> Id_INV_2])) = 1
    /\ MappingOf(config)[Key_cn1_01_inv1] = 3
    /\ MappingOf(config)[Key_cn1_01_inv2] = 1
    /\ df[1].circuit_id = Id_cn1_1 /\ df[1].inverter_id = Id_INV_1
    /\ IsSuccess(results[1]) /\ results[1].parallel_strings = 3

\* what an identifier denotes: case, surrounding blanks, the prefix and
\* leading zeros set aside
BoxDenoted(id) ==
    LET t == strip(lower(id))
    IN  OrZero(lstrip(IF startswith(t, CN1_LO) THEN SubSeq(t, 5, Len(t)) ELSE t, "0"))

InverterDenoted(id) ==
    LET t == strip(upper(id))
    IN  OrZero(lstrip(IF startswith(t, INV_UP) THEN SubSeq(t, 5, Len(t)) ELSE t, "0"))

\* string row i and the CN1 row denote the same box and inverter
SameCircuit(i) ==
    /\ BoxDenoted(string_df[i].cn1_id) = BoxDenoted(df[1].circuit_id)
    /\ InverterDenoted(string_df[i].inverter_id) = InverterDenoted(df[1].inverter_id)

\* C8: the normalization of the string-table rows and the one of the
\* CN1-table rows give the same key for identifiers that denote the same
\* box and inverter, regardless of letter case, surrounding whitespace,
\* zero padding of the box number or leading zeros of the inverter number,
\* so a CN1 row finds the count of its own strings.
C8_SameKeyBothSides ==
    pc = "done" =>
        LET own == {i \in 1..Len(string_df) : SameCircuit(i)}
        IN  /\ \A i \in own : StringKey(i) = KeyOfRow(1)
            /\ (own # {} /\ IsSuccess(results[1])) =>
                   results[1].parallel_strings = Cardinality(own)

\* an identifier that follows the prefix convention, whatever its case
HasBoxPrefix(id) == startswith(strip(upper(id)), CN1_UP)
HasInverterPrefix(id) == startswith(strip(upper(id)), INV_UP)

\* the rows of the string sheet with an identifier outside the convention
Unprefixed ==
    {i \in 1..Len(string_df) : ~HasBoxPrefix(string_df[i].cn1_id)
                               \/ ~HasInverterPrefix(string_df[i].inverter_id)}

CN1RowUnprefixed ==
    ~HasBoxPrefix(df[1].circuit_id) \/ ~HasInverterPrefix(df[1].inverter_id)

\* C9 as stated: every row whose combiner-box or inverter identifier lacks
\* the 'CN1-' / 'INV-' prefix is mapped to the single key "UNKNOWN", on the
\* string-table side and on the CN1-table side, and the batch does not fail.
C9_UnknownBucket ==
    /\ pc # "idle" => \A i \in Unprefixed : StringKey(i) = UNKNOWN
    /\ pc = "done" =>
          /\ CN1RowUnprefixed => KeyOfRow(1) = UNKNOWN
          /\ IsSuccess(results[1])

\* a string zero-padded on the left to two characters
PadTo2(t) == IF Len(t) = 0 THEN <<"0", "0">> ELSE IF Len(t) = 1 THEN <<"0">> \o t ELSE t

\* a string without its leading zeros, "0" if nothing is left
NoLeadingZeros(t) ==
    IF \A j \in 1..Len(t) : t[j] = "0" THEN <<"0">>
    ELSE SubSeq(t, CHOOSE j \in 1..Len(t) : t[j] # "0" /\ \A h \in 1..(j - 1) : t[h] = "0",
                Len(t))

endswith(t, suffix) ==
    Len(t) >= Len(suffix) /\ SubSeq(t, Len(t) - Len(suffix) + 1, Len(t)) = suffix

\* the key keeps the raw identifier of a part that lacks its prefix
KeepsRawParts(key, box_id, inv_id) ==
    /\ key # UNKNOWN
    /\ startswith(key, KEY_CN1) /\ Len(key) >= Len(KEY_CN1) + 2 + Len(KEY_INV) + 1
    /\ ~HasBoxPrefix(box_id) => startswith(key, KEY_CN1 \o PadTo2(box_id) \o KEY_INV)
    /\ ~HasInverterPrefix(inv_id) => endswith(key, KEY_INV \o NoLeadingZeros(inv_id))

\* C9 amended: no row is mapped to "UNKNOWN".  On both sides the key of
\* every row has the form cn1-<box>-inv<inverter>; a box identifier without
\* the 'CN1-' prefix enters it as written, zero-padded to width 2, and an
\* inverter identifier without the 'INV-' prefix enters it as written, its
\* leading zeros removed ("0" if nothing is left).  Every string row is
\* counted under its key and the CN1 row is sized successfully.
C9_UnprefixedKeptRaw ==
    /\ pc # "idle" =>
          /\ \A i \in 1..Len(string_df) :
                /\ KeepsRawParts(StringKey(i), string_df[i].cn1_id, string_df[i].inverter_id)
                /\ StringKey(i) \in DOMAIN MappingOf(config)
          /\ UNKNOWN \notin DOMAIN MappingOf(config)
    /\ pc = "done" =>
          /\ KeepsRawParts(KeyOfRow(1), df[1].circuit_id, df[1].inverter_id)
          /\ IsSuccess(results[1])
          /\ results[1].normalized_circuit_id = KeyOfRow(1)

Key_cn1_07_inv3 == <<"c", "n", "1", "-", "0", "7", "-", "i", "n", "v", "3">>

\* witness: two string rows 7 / 03 and the CN1 row 7 / 3, all without
\* prefixes, joined under cn1-07-inv3 with a count of 2
C9_Witness ==
    /\ pc = "done" /\ Len(string_df) = 2
    /\ Unprefixed = {1, 2} /\ CN1RowUnprefixed
    /\ StringKey(1) = Key_cn1_07_inv3
    /\ KeyOfRow(1) = Key_cn1_07_inv3
    /\ IsSuccess(results[1]) /\ results[1].parallel_strings = 2

-----------------------------------------------------------------------------
(* Override merging.  In this part a profile is a nested dict whose leaves  *)
(* are scalars [scalar |-> n]; a path is the sequence of the keys of a      *)
(* dotted path.                                                            *)

Scalar(n) == [scalar |-> n]

\* isinstance(v, dict)
IsDict(v) == "scalar" \notin DOMAIN v

EmptyDict == [k \in {} |-> Scalar(0)]

\* the table of convert_ui_path_to_config_path, as far as the paths below
\* use it
UI_PATH_MAPPING ==
    ( <<"editable_sections", "voltage", "parameters", "max_percentage", "value">>
          :> <<"voltage_drop", "max_percentage">>
      @@ <<"editable_sections", "cable", "parameters", "material", "value">>
          :> <<"cable", "material">>
      @@ <<"editable_sections", "safety", "parameters", "current_safety", "value">>
          :> <<"safety_factors", "current_safety">> )

\* path_mapping.get(ui_path, ui_path)
convert_ui_path_to_config_path(ui_path) ==
    IF ui_path \in DOMAIN UI_PATH_MAPPING THEN UI_PATH_MAPPING[ui_path] ELSE ui_path

(* set_nested_parameter: walks the keys but the last, creating {} where a  *)
(* key is missing, and assigns the last.  Indexing into a scalar raises;   *)
(* value is the dict as the call leaves it either way.                     *)
RECURSIVE set_nested_parameter(_, _, _)
set_nested_parameter(config_dict, keys, value) ==
    IF ~IsDict(config_dict) THEN [raised |-> TRUE, value |-> config_dict]
    ELSE IF Len(keys) = 1 THEN [raised |-> FALSE, value |-> SetKey(config_dict, keys[1], value)]
    ELSE LET below == set_nested_parameter(
                          IF keys[1] \in DOMAIN config_dict THEN config_dict[keys[1]]
                          ELSE EmptyDict,
                          Tail(keys), value)
         IN  [raised |-> below.raised, value |-> SetKey(config_dict, keys[1], below.value)]

(* apply_overrides_to_config: a deep copy, then one set_nested_parameter   *)
(* per override in dict order; an exception skips the override             *)
RECURSIVE apply_overrides_to_config(_, _)
apply_overrides_to_config(base_config, overrides) ==
    IF overrides = <<>> THEN base_config
    ELSE apply_overrides_to_config(
             set_nested_parameter(base_config,
                                  convert_ui_path_to_config_path(Head(overrides)[1]),
                                  Head(overrides)[2]).value,
             Tail(overrides))

\* dict.update: the keys of section_data replace those of section
dict_update(section, section_data) ==
    [k \in (DOMAIN section) \cup (DOMAIN section_data) |->
        IF k \in DOMAIN section_data THEN section_data[k] ELSE section[k]]

(* update_project_normative, step 3: a section of the overrides is merged  *)
(* by dict.update when both sides are dicts, replaces the section          *)
(* otherwise, and is skipped when the normative has no such section        *)
update_project_normative(normativa, yaml_overrides) ==
    [section_name \in DOMAIN normativa |->
        IF section_name \notin DOMAIN yaml_overrides THEN normativa[section_name]
        ELSE IF IsDict(yaml_overrides[section_name]) /\ IsDict(normativa[section_name])
             THEN dict_update(normativa[section_name], yaml_overrides[section_name])
             ELSE yaml_overrides[section_name]]

-----------------------------------------------------------------------------
(* Specification SpecMerge: a base normative profile, project overrides    *)
(* applied to it by get_normativa_config, and the project's own copy of    *)
(* the normative updated by update_project_normative.                      *)

MaxOverrides == 2

\* the sections of a normative of configs/normativas.yaml, cut down to two
\* parameters each; temperature_correction.values is a table below a section
MergeBase ==
    [ name |-> Scalar(1),
      voltage_drop |-> [max_percentage |-> Scalar(1), reference_voltage |-> Scalar(2)],
      cable |-> [material |-> Scalar(1), insulation |-> Scalar(2)],
      temperature_correction |->
          [ambient_design |-> Scalar(1), values |-> [t30 |-> Scalar(1), t40 |-> Scalar(2)]] ]

\* the paths of modified_parameters: three of the UI, three of the config
OverridePaths ==
    { <<"editable_sections", "voltage", "parameters", "max_percentage", "value">>,
      <<"editable_sections", "cable", "parameters", "material", "value">>,
      <<"editable_sections", "safety", "parameters", "current_safety", "value">>,
      <<"voltage_drop", "reference_voltage">>,
      <<"temperature_correction", "ambient_design">>,
      <<"temperature_correction", "values", "t40">> }

\* the base holds 1 and 2, an override 9
OverrideValues == {Scalar(9)}

\* modified_parameters: a dict of distinct paths, in insertion order
OverrideDicts ==
    { o \in SeqsUpTo(OverridePaths \X OverrideValues, MaxOverrides) :
        \A i, j \in 1..Len(o) : i # j => o[i][1] # o[j][1] }

\* yaml_overrides of one section
SectionOverrides ==
    { [voltage_drop |-> [max_percentage |-> Scalar(9)]],
      [cable |-> [material |-> Scalar(9)]],
      [name |-> Scalar(9)],
      [temperature_correction |-> [ambient_design |-> Scalar(9)]],
      [temperature_correction |-> [values |-> [t40 |-> Scalar(9)]]],
      [safety_factors |-> [current_safety |-> Scalar(9)]] }

\* yaml_overrides of one or two sections
YamlOverrides ==
    SectionOverrides
    \cup { dict_update(f, g) : f, g \in SectionOverrides }

InitMerge ==
    /\ SECTIONS_CONFIG = load_sections_config("IEC")
    /\ config = MergeBase
    /\ df = <<>> /\ circuit_type = "dc_strings" /\ kind = "none"
    /\ results = <<>> /\ success_count = 0 /\ error_count = 0
    /\ pc = "idle" /\ string_df = <<>>
    /\ call = IdleCall
    /\ project_normativa = NO_FILE
    /\ files = INSTALLED_FILES /\ procs = NO_REQUESTS

(* get_normativa_config: the stored overrides of the project applied to    *)
(* the base normative; the base is left as it was                          *)
GetNormativaConfig ==
    /\ \E overrides \in OverrideDicts :
          call' = [ fn |-> "apply_overrides_to_config",
                    base |-> config,
                    overrides |-> overrides,
                    ret |-> apply_overrides_to_config(config, overrides) ]
    /\ UNCHANGED <<files, procs, project_normativa, SECTIONS_CONFIG, config, df, circuit_type, kind,
                   results, success_count, error_count, pc, string_df>>

(* update_project_normative: the project's copy is created from the base   *)
(* if there is none, the overrides are merged into it and it is saved      *)
UpdateProjectNormative ==
    /\ \E yaml_overrides \in YamlOverrides :
          \E current \in {IF project_normativa = NO_FILE THEN config
                          ELSE project_normativa} :
              /\ project_normativa' = update_project_normative(current, yaml_overrides)
              /\ call' = [ fn |-> "update_project_normative",
                           base |-> current,
                           overrides |-> yaml_overrides,
                           ret |-> update_project_normative(current, yaml_overrides) ]
    /\ UNCHANGED <<files, procs, SECTIONS_CONFIG, config, df, circuit_type, kind, results,
                   success_count, error_count, pc, string_df>>

NextMerge == GetNormativaConfig \/ UpdateProjectNormative

SpecMerge == InitMerge /\ [][NextMerge]_vars

\* the (path, value) pairs of the leaves of a nested dict
RECURSIVE LeavesOf(_)
LeavesOf(d) ==
    IF ~IsDict(d) THEN {<< <<>>, d >>}
    ELSE UNION { { << <<k>> \o l[1], l[2] >> : l \in LeavesOf(d[k]) } : k \in DOMAIN d }

\* the value at a path, NO_FILE's like marker if the path is not there
RECURSIVE At(_, _)
At(d, path) ==
    IF path = <<>> THEN d
    ELSE IF IsDict(d) /\ path[1] \in DOMAIN d THEN At(d[path[1]], Tail(path))
    ELSE [missing |-> TRUE]

\* the leaves the override of the last call names, with their values
NamedLeaves ==
    IF call.fn = "apply_overrides_to_config"
    THEN { <<convert_ui_path_to_config_path(call.overrides[i][1]), call.overrides[i][2]>> :
           i \in 1..Len(call.overrides) }
    ELSE LeavesOf(call.overrides)

\* C6: applying a project override to a base normative profile is a merge,
\* not a replacement: every key of the base that the override does not name
\* keeps its base value in the resolved config, and every leaf the override
\* names takes the override's value.
C6_MergeNotReplace ==
    call.fn \in {"apply_overrides_to_config", "update_project_normative"} =>
        /\ \A l \in LeavesOf(call.base) :
              (\A n \in NamedLeaves : n[1] # l[1]) => At(call.ret, l[1]) = l[2]
        /\ \A n \in NamedLeaves : At(call.ret, n[1]) = n[2]


-----------------------------------------------------------------------------
(* Configuration resolution: get_panel_data, get_normativa_config and      *)
(* build_calculation_config of config_loader, over the files of the        *)
(* project.  Profiles are in the nested-dict form of the override merge.   *)

FALLBACK_PANEL == "Panel Personalizado"

\* project_name = None
NO_PROJECT == ""

(* get_panel_data: the entry of the model; for a model that is not in the  *)
(* database the entry "Panel Personalizado" if there is one, ValueError    *)
(* otherwise                                                               *)
get_panel_data(panels, panel_model) ==
    IF panel_model \in DOMAIN panels THEN Ok(panels[panel_model])
    ELSE IF FALLBACK_PANEL \in DOMAIN panels THEN Ok(panels[FALLBACK_PANEL])
    ELSE Raise("ValueError: panel")

\* the sections build_calculation_config reads besides those of MergeBase
ResolveBase ==
    Extend(MergeBase,
           [ correction_factors |-> [isc_safety_factor |-> Scalar(1),
                                     parallel_strings |-> Scalar(1)],
             installation |-> [method |-> Scalar(1), layout |-> Scalar(1)],
             grouping_factors |-> [conduit |-> Scalar(1)] ])

\* configs/normativas.yaml as load_normativas_config returns it
REGISTERED ==
    ( "IEC" :> ResolveBase
      @@ "NEC" :> [ResolveBase EXCEPT !.name = Scalar(2),
                                      !.voltage_drop.max_percentage = Scalar(3)] )

\* ProjectNormService.load_project_overrides: the stored object; NO_FILE
\* stands for the None it returns when there is no file
load_project_overrides(fs) == fs.norm_overrides

\* the _metadata of a profile without overrides
base_metadata(normativa, project_name) ==
    [ normativa_key |-> normativa,
      has_project_overrides |-> FALSE,
      project_name |-> project_name ]

\* the profile with the stored overrides applied and reported
with_project_overrides(normativa_config, overrides) ==
    LET merged == apply_overrides_to_config(normativa_config, overrides.modified_parameters)
    IN  SetKey(merged, "_metadata",
               Extend(merged["_metadata"],
                      [ has_project_overrides |-> TRUE,
                        overrides_info |->
                            [ base_norm |-> overrides.base_norm,
                              modified_count |-> Len(overrides.modified_parameters) ] ]))

(* get_normativa_config: ValueError for a code that is not registered;     *)
(* the base profile with _metadata; with a project name and a stored       *)
(* norm_overrides.json, the overrides applied                              *)
get_normativa_config(fs, normativa, project_name) ==
    IF normativa \notin DOMAIN REGISTERED THEN Raise("ValueError: normativa")
    ELSE LET normativa_config ==
                 SetKey(REGISTERED[normativa], "_metadata",
                        base_metadata(normativa, project_name))
         IN  IF project_name # NO_PROJECT /\ load_project_overrides(fs) # NO_FILE
             THEN Ok(with_project_overrides(normativa_config, load_project_overrides(fs)))
             ELSE Ok(normativa_config)

\* step 3 of build_calculation_config: the combined dict
combined_config(panel_model, panel_data, normativa, normativa_config, project_name) ==
    [ isc_ref |-> panel_data.electrical_stc.isc,
      voc_ref |-> panel_data.electrical_stc.voc,
      power_stc |-> panel_data.power_stc,
      isc_correction |-> normativa_config.correction_factors.isc_safety_factor,
      number_of_parallel_strings |-> normativa_config.correction_factors.parallel_strings,
      cable |-> normativa_config.cable,
      installation |-> normativa_config.installation,
      correction_factors |->
          [ ambient_temperature |->
                [ current_ambient |-> normativa_config.temperature_correction.ambient_design,
                  values |-> normativa_config.temperature_correction.values ],
            grouping |-> normativa_config.grouping_factors ],
      voltage_drop |-> normativa_config.voltage_drop,
      _metadata |-> [ panel_model |-> panel_model,
                      panel_data |-> panel_data,
                      normativa |-> normativa,
                      normativa_config |-> normativa_config["_metadata"],
                      project_name |-> project_name ] ]

(* the closing log line of build_calculation_config takes len() of the     *)
(* integer modified_count when overrides were applied: TypeError, which    *)
(* the function logs and re-raises                                         *)
log_built(normativa_config, combined) ==
    IF normativa_config["_metadata"].has_project_overrides
    THEN Raise("TypeError: len() of int")
    ELSE Ok(combined)

build_with_normativa(panel_model, panel_data, normativa, nc, project_name) ==
    IF nc.raised THEN nc
    ELSE log_built(nc.value,
                   combined_config(panel_model, panel_data, normativa, nc.value,
                                   project_name))

build_with_panel(fs, panel_model, panel, normativa, project_name) ==
    IF panel.raised THEN panel
    ELSE build_with_normativa(panel_model, panel.value, normativa,
                              get_normativa_config(fs, normativa, project_name),
                              project_name)

(* build_calculation_config(project_info, normativa, project_name)         *)
build_calculation_config(fs, project_info, normativa, project_name) ==
    build_with_panel(fs, Get(project_info, "panel_model", FALLBACK_PANEL),
                     get_panel_data(fs.panels,
                                    Get(project_info, "panel_model", FALLBACK_PANEL)),
                     normativa, project_name)


-----------------------------------------------------------------------------
(* The override stores of a project.  norm_overrides.json is written by    *)
(* ProjectNormService and read by get_normativa_config; the stage files    *)
(* normativas/<stage>.yaml are written, read back and deleted by the       *)
(* endpoints of normative_parameters and by nothing else.                  *)

\* Each operation returns [raised, value, files]: the outcome and the files
\* as it leaves them.
Done(outcome, fs) == [raised |-> outcome.raised, value |-> outcome.value, files |-> fs]

\* the keys the endpoint writes into the _metadata of the saved dict
\* (updated_at, a timestamp, left out)
stage_metadata(stage, base_norm) ==
    [ circuit_type |-> stage,
      base_normative |-> base_norm,
      stage_specific |-> TRUE,
      source |-> "user_override" ]

\* the dict the endpoint dumps: the request's yaml_overrides with _metadata
stage_content(stage, base_norm, yaml_overrides) ==
    SetKey(yaml_overrides, "_metadata",
           Extend(Get(yaml_overrides, "_metadata", EmptyDict),
                  stage_metadata(stage, base_norm)))

(* save_stage_normative_parameters: 400 for empty yaml_overrides, turned   *)
(* into 500 by the handler; otherwise the stage file is rewritten          *)
save_stage_normative_parameters(fs, stage, base_norm, yaml_overrides) ==
    IF DOMAIN yaml_overrides = {} THEN Done(Raise("HTTPException 500"), fs)
    ELSE Done(Ok([success |-> TRUE, stage |-> stage]),
              [fs EXCEPT !.stage[stage] =
                   stage_content(stage, base_norm, yaml_overrides)])

(* delete_stage_normative_parameters: removes the stage file; 404 when     *)
(* there is none, turned into 500 by the handler                           *)
delete_stage_normative_parameters(fs, stage) ==
    IF fs.stage[stage] # NO_FILE
    THEN Done(Ok([success |-> TRUE, stage |-> stage]), [fs EXCEPT !.stage[stage] = NO_FILE])
    ELSE Done(Raise("HTTPException 500"), fs)

(* get_project_stage_normative: the content of the stage file, 404 when    *)
(* there is none                                                           *)
get_project_stage_normative(fs, stage) ==
    IF fs.stage[stage] = NO_FILE THEN Raise("HTTPException 404")
    ELSE Ok([stage |-> stage, custom_parameters |-> fs.stage[stage]])

(* ProjectNormService.save_project_overrides: the file is rewritten with   *)
(* the parameters of the call (last_modified, a timestamp, left out)       *)
save_project_overrides(fs, base_norm, modified_parameters) ==
    Done(Ok(TRUE),
         [fs EXCEPT !.norm_overrides =
              [ base_norm |-> base_norm,
                modified_parameters |-> modified_parameters,
                version |-> "1.0" ]])

(* ProjectNormService.delete_project_overrides: unlinks the file if it     *)
(* exists and returns True either way                                      *)
delete_project_overrides(fs) ==
    Done(Ok(TRUE), [fs EXCEPT !.norm_overrides = NO_FILE])


-----------------------------------------------------------------------------
(* Specification SpecStore: requests on one project, one at a time: saves  *)
(* and deletes of its overrides, configuration resolutions, and changes of *)
(* the active normative of the calculator.                                 *)

PROJECT == "demo"

\* codes a request can name; "XYZ" is not registered
NormativeCodes == {"IEC", "NEC", "XYZ"}

\* project_info of the project's Excel file: a panel of the database, one
\* that is not in it, and a file without panel_model
ProjectInfos ==
    { [project_name |-> PROJECT, panel_model |-> "JKM-550"],
      [project_name |-> PROJECT, panel_model |-> "LONGi-999"],
      [project_name |-> PROJECT] }

\* panel databases: with the entry "Panel Personalizado" and without it
PanelDatabases ==
    { PANEL_DATABASE,
      [m \in (DOMAIN PANEL_DATABASE) \ {FALLBACK_PANEL} |-> PANEL_DATABASE[m]] }

Override_max_percentage ==
    << <<"editable_sections", "voltage", "parameters", "max_percentage", "value">>,
       Scalar(9) >>

Override_material ==
    << <<"editable_sections", "cable", "parameters", "material", "value">>, Scalar(9) >>

\* modified_parameters of a save request
ModifiedParameters ==
    { <<>>, <<Override_max_percentage>>, <<Override_material>>,
      <<Override_max_percentage, Override_material>> }

\* yaml_overrides of a stage save request
StageOverrides ==
    { EmptyDict,
      [voltage_drop |-> [max_percentage |-> Scalar(9)]],
      [cable |-> [material |-> Scalar(9)]],
      [voltage_drop |-> [max_percentage |-> Scalar(8)],
       cable |-> [material |-> Scalar(8)]] }

InitStore ==
    /\ SECTIONS_CONFIG = load_sections_config("IEC")
    /\ config = <<>> /\ df = <<>> /\ circuit_type = "dc_strings" /\ kind = "none"
    /\ results = <<>> /\ success_count = 0 /\ error_count = 0
    /\ pc = "idle" /\ string_df = <<>>
    /\ call = IdleCall
    /\ project_normativa = NO_FILE
    /\ \E panels \in PanelDatabases : files = [INSTALLED_FILES EXCEPT !.panels = panels]
    /\ procs = NO_REQUESTS

\* what no request on the stores changes
batchVars == <<config, df, circuit_type, kind, results, success_count, error_count,
               pc, string_df, project_normativa, procs>>

\* PUT /projects/{project_name}/normatives/{stage}/parameters
SaveStage ==
    /\ \E stage \in STAGES, yaml_overrides \in StageOverrides :
          \E out \in {save_stage_normative_parameters(files, stage, "IEC", yaml_overrides)} :
              /\ files' = out.files
              /\ call' = [ fn |-> "save_stage_normative_parameters", stage |-> stage,
                           arg |-> yaml_overrides, before |-> files,
                           raised |-> out.raised ]
    /\ UNCHANGED <<SECTIONS_CONFIG, batchVars>>

\* DELETE /projects/{project_name}/normatives/{stage}/parameters
DeleteStage ==
    /\ \E stage \in STAGES :
          \E out \in {delete_stage_normative_parameters(files, stage)} :
              /\ files' = out.files
              /\ call' = [ fn |-> "delete_stage_normative_parameters", stage |-> stage,
                           before |-> files, raised |-> out.raised ]
    /\ UNCHANGED <<SECTIONS_CONFIG, batchVars>>

\* save_project_norm_parameters -> ProjectNormService.save_project_overrides
SaveProjectOverrides ==
    /\ \E modified_parameters \in ModifiedParameters :
          \E out \in {save_project_overrides(files, "IEC", modified_parameters)} :
              /\ files' = out.files
              /\ call' = [ fn |-> "save_project_overrides", arg |-> modified_parameters,
                           before |-> files, raised |-> out.raised ]
    /\ UNCHANGED <<SECTIONS_CONFIG, batchVars>>

\* reset_project_normative_parameters ->
\* ProjectNormService.delete_project_overrides
DeleteProjectOverrides ==
    /\ \E out \in {delete_project_overrides(files)} :
          /\ files' = out.files
          /\ call' = [ fn |-> "delete_project_overrides", before |-> files,
                       raised |-> out.raised ]
    /\ UNCHANGED <<SECTIONS_CONFIG, batchVars>>

(* a calculation endpoint resolves its configuration:                      *)
(* build_calculation_config(project_info, normativa, project_name)         *)
BuildCalculationConfig ==
    /\ \E project_info \in ProjectInfos, normativa \in NormativeCodes,
          project_name \in {PROJECT, NO_PROJECT} :
          call' = [ fn |-> "build_calculation_config",
                    project_info |-> project_info,
                    normativa |-> normativa,
                    project_name |-> project_name,
                    ret |-> build_calculation_config(files, project_info, normativa,
                                                     project_name) ]
    /\ UNCHANGED <<SECTIONS_CONFIG, files, batchVars>>

(* switch_normativa(normativa): SECTIONS_CONFIG is reloaded; True unless   *)
(* load_sections_config raises                                             *)
SwitchNormativa ==
    /\ \E normativa \in NormativeCodes :
          /\ SECTIONS_CONFIG' = load_sections_config(normativa)
          /\ call' = [ fn |-> "switch_normativa", normativa |-> normativa, ret |-> TRUE ]
    /\ UNCHANGED <<files, batchVars>>

(* the calculator reads a normative by name: get_normativa_config_fixed    *)
GetNormativaConfigFixed ==
    /\ \E normativa \in NormativeCodes :
          call' = [ fn |-> "get_normativa_config_fixed", normativa |-> normativa,
                    ret |-> get_normativa_config_fixed(normativa).name ]
    /\ UNCHANGED <<SECTIONS_CONFIG, files, batchVars>>

NextStore ==
    \/ SaveStage \/ DeleteStage \/ SaveProjectOverrides \/ DeleteProjectOverrides
    \/ BuildCalculationConfig \/ SwitchNormativa \/ GetNormativaConfigFixed

SpecStore == InitStore /\ [][NextStore]_vars


-----------------------------------------------------------------------------
(* Properties of resolution and of the override stores (SpecStore).        *)

Unregistered(normativa) == normativa \notin DOMAIN REGISTERED

\* C11: resolving a configuration for a normative code that is not
\* registered fails with an explicit error, and no code path of resolution
\* or calculation silently substitutes the default normative (IEC) for the
\* unknown code: switch_normativa does not report success with the IEC
\* catalogs loaded, and get_normativa_config_fixed does not return the IEC
\* profile.
C11_UnknownNormativeFails ==
    /\ (call.fn = "build_calculation_config" /\ Unregistered(call.normativa)) =>
           call.ret.raised
    /\ (call.fn = "switch_normativa" /\ Unregistered(call.normativa)) =>
           ~(call.ret = TRUE /\ SECTIONS_CONFIG.normativa_used = "IEC")
    /\ (call.fn = "get_normativa_config_fixed" /\ Unregistered(call.normativa)) =>
           call.ret # NORMATIVAS["IEC"].name


\* a resolution of the project's configuration that names a registered
\* normative and a panel of the database
ResolvedForProject ==
    /\ call.fn = "build_calculation_config"
    /\ call.project_name = PROJECT
    /\ ~Unregistered(call.normativa)
    /\ Get(call.project_info, "panel_model", FALLBACK_PANEL) \in DOMAIN files.panels

\* the leaves of a stored stage override, its _metadata aside
StageLeaves(content) ==
    LeavesOf([k \in (DOMAIN content) \ {"_metadata"} |-> content[k]])

\* the leaves of stored modified_parameters, by config path
StoredLeaves(overrides) ==
    { <<convert_ui_path_to_config_path(overrides.modified_parameters[i][1]),
        overrides.modified_parameters[i][2]>> :
      i \in 1..Len(overrides.modified_parameters) }

\* the resolution succeeded, carries the values of the leaves and reports
\* project overrides
UsesOverrides(ret, leaves) ==
    /\ ~ret.raised
    /\ \A l \in leaves : At(ret.value, l[1]) = l[2]
    /\ ret.value["_metadata"].normativa_config.has_project_overrides

\* C12: after an override has been saved for the project (for a stage, or
\* as the project's norm_overrides.json) and not deleted since, every
\* subsequent configuration resolution for the project uses the saved
\* values merged over the base normative, and its metadata reports that
\* project overrides were applied.
C12_SavedOverrideUsed ==
    ResolvedForProject =>
        /\ \A st \in STAGES :
              files.stage[st] # NO_FILE =>
                  UsesOverrides(call.ret, StageLeaves(files.stage[st]))
        /\ files.norm_overrides # NO_FILE =>
               UsesOverrides(call.ret, StoredLeaves(files.norm_overrides))


\* the last call deleted (reset) an override of the project
IsDelete ==
    call.fn \in {"delete_stage_normative_parameters", "delete_project_overrides"}

\* the resolution of the base normative alone: the same call made for a
\* project that has never stored anything
BaseAlone(c) ==
    build_calculation_config([INSTALLED_FILES EXCEPT !.panels = files.panels],
                             c.project_info, c.normativa, c.project_name)

\* C13: after an override is deleted for a project, and until the next
\* save, every configuration resolution for the project equals the
\* resolution of the base normative alone and reports no project overrides;
\* deleting when no override exists succeeds and changes nothing.
C13_DeleteReverts ==
    /\ (ResolvedForProject /\ files.norm_overrides = NO_FILE) =>
           /\ call.ret = BaseAlone(call)
           /\ ~call.ret.raised
           /\ ~call.ret.value["_metadata"].normativa_config.has_project_overrides
    /\ IsDelete =>
           /\ ~call.raised
           /\ (call.fn = "delete_project_overrides" =>
                   files = [call.before EXCEPT !.norm_overrides = NO_FILE])
           /\ (call.fn = "delete_stage_normative_parameters" =>
                   files = [call.before EXCEPT !.stage[call.stage] = NO_FILE])


\* the last call saved an override over one that was already stored
SaveOverStored ==
    \/ /\ call.fn = "save_project_overrides"
       /\ ~call.raised
       /\ call.before.norm_overrides # NO_FILE
    \/ /\ call.fn = "save_stage_normative_parameters"
       /\ ~call.raised
       /\ call.before.stage[call.stage] # NO_FILE

\* the top-level sections of the stored override before and after the last
\* save, and of the save's argument; norm_overrides.json keys its
\* modified_parameters by dotted UI path, whose first config key is the
\* section
SectionsOfParameters(modified_parameters) ==
    { convert_ui_path_to_config_path(modified_parameters[i][1])[1] :
      i \in 1..Len(modified_parameters) }

StoredSections(fs, c) ==
    IF c.fn = "save_project_overrides"
    THEN SectionsOfParameters(fs.norm_overrides.modified_parameters)
    ELSE (DOMAIN fs.stage[c.stage]) \ {"_metadata"}

NamedSections(c) ==
    IF c.fn = "save_project_overrides"
    THEN SectionsOfParameters(c.arg)
    ELSE (DOMAIN c.arg) \ {"_metadata"}

\* C14: saving an override for a project/stage that already has one merges
\* the new top-level sections into the stored override: every section of
\* the stored override that the new save does not name is still present
\* afterwards, and the sections it names carry its values.
C14_SaveMerges ==
    SaveOverStored =>
        /\ StoredSections(call.before, call) \ NamedSections(call)
               \subseteq StoredSections(files, call)
        /\ NamedSections(call) \subseteq StoredSections(files, call)


\* the last call resolved a configuration for a panel model that matches no
\* entry of the panel database
MissingPanelRequested ==
    /\ call.fn = "build_calculation_config"
    /\ "panel_model" \in DOMAIN call.project_info
    /\ call.project_info.panel_model \notin DOMAIN files.panels

\* C17: looking up a panel model that matches no entry of the panel catalog
\* fails with an error; the resolver never substitutes a fallback panel's
\* isc/voc/power for the missing model.
C17_MissingPanelFails ==
    MissingPanelRequested =>
        /\ call.ret.raised
        /\ call.ret.value = "ValueError: panel"


\* success results that carry a commercial section
Sized == { i \in 1..Len(results) :
             IsSuccess(results[i]) /\ results[i].s_comercial_mm2 # None }

\* the catalog's largest section was taken although the theoretical section
\* is larger
ExceedsCatalog(r) == RLt(r.s_comercial_mm2, r.exact.s_teorica_mm2)

\* C18 as stated: for every success result with a commercial section,
\* results whose theoretical section exceeds the catalog maximum included,
\* voltageDropV <= maxVoltageDropV * (commercialSection / theoreticalSection)
\* (written without the division).
C18_DropBoundAlways ==
    \A i \in Sized :
        RLe(RMul(results[i].v_drop_real_volts, results[i].s_teorica_mm2),
            RMul(results[i].v_drop_max_volts, results[i].s_comercial_mm2))

\* C18: for every success result whose commercial section is at least the
\* theoretical section, voltageDropV <= maxVoltageDropV * (commercialSection
\* / theoreticalSection), in the reported and in the unrounded values; for a
\* result whose theoretical section exceeds the catalog maximum the
\* unrounded drop is maxVoltageDropV * (theoreticalSection /
\* commercialSection), which is above maxVoltageDropV.
C18_DropBound ==
    \A i \in Sized :
        LET r == results[i]
        IN  /\ ~ExceedsCatalog(r) =>
                  /\ RLe(RMul(r.v_drop_real_volts, r.s_teorica_mm2),
                         RMul(r.v_drop_max_volts, r.s_comercial_mm2))
                  /\ RLe(RMul(r.exact.v_drop_real, r.exact.s_teorica_mm2),
                         RMul(r.exact.max_voltage_drop_v, r.s_comercial_mm2))
            /\ ExceedsCatalog(r) =>
                  /\ RLe(RMul(r.exact.v_drop_real, r.s_comercial_mm2),
                         RMul(r.exact.max_voltage_drop_v, r.exact.s_teorica_mm2))
                  /\ RGe(RMul(r.exact.v_drop_real, r.s_comercial_mm2),
                         RMul(r.exact.max_voltage_drop_v, r.exact.s_teorica_mm2))
                  /\ RGt(r.exact.v_drop_real, r.exact.max_voltage_drop_v)

\* witness: one batch with a result sized within the catalog, strictly
\* larger than its theoretical section, and a result that exceeds the catalog
C18_Witness ==
    /\ pc = "done" /\ Len(results) = 2
    /\ \E i, j \in Sized :
          /\ ExceedsCatalog(results[i])
          /\ RLt(results[j].exact.s_teorica_mm2, results[j].s_comercial_mm2)


\* the exceptions the row functions raise on purpose for bad data
DomainErrors ==
    { "ValueError: invalid lengths", "ValueError: excessive lengths",
      "ValueError: isc", "ValueError: max drop", "ValueError: section",
      "ValueError: material", "ValueError" }

\* C20: a failing row is tagged by the kind of its failure: a domain error
\* yields a record tagged ERROR, an unexpected (programming) exception
\* raised while processing the row yields a record tagged FATAL_ERROR; in
\* both cases the following rows are still processed.
C20_FailureKinds ==
    /\ \A i \in 1..Len(results) :
          IsFailure(results[i]) =>
              /\ results[i].error \in DomainErrors =>
                     results[i].calculation_status = "ERROR"
              /\ results[i].error \notin DomainErrors =>
                     results[i].calculation_status = "FATAL_ERROR"
    /\ pc = "done" => Len(results) = Len(df)


-----------------------------------------------------------------------------
(* calcular_seccion_minima_simple, the stand-alone minimum section by      *)
(* voltage drop.                                                           *)

\* caida_v = tension_v * (caida_pct / 100)
caida_v(caida_pct, tension_v) == RMul(tension_v, RDiv(caida_pct, RInt(100)))

calcular_seccion_minima_simple(corriente_a, longitud_m, caida_pct, tension_v, resistividad_ohm_mm2_per_m) ==
    round(RDiv(RMul(RMul(RMul(RInt(2), resistividad_ohm_mm2_per_m), longitud_m),
                    corriente_a),
               caida_v(caida_pct, tension_v)),
          3)

\* the value test_seccion_minima_simple expects
esperado(corriente, longitud, caida_pct, tension, resistividad) ==
    round(RDiv(RMul(RMul(resistividad, longitud), corriente),
               RDiv(RMul(tension, caida_pct), RInt(100))),
          3)

(* Specification SpecSimple: calls of calcular_seccion_minima_simple with  *)
(* positive arguments.                                                     *)

SimpleCurrents == { R(1188, 100), RInt(10), RInt(15), R(25, 2) }
SimpleLengths == { RInt(20), RInt(50), RInt(100), R(75, 2) }
SimpleDropPcts == { RInt(3), R(3, 2) }
SimpleVoltages == { RInt(1500), RInt(1000) }
SimpleResistivities == { R(172, 10000), R(1724, 100000) }

CalcularSeccionMinimaSimple ==
    /\ \E corriente_a \in SimpleCurrents, longitud_m \in SimpleLengths,
          caida_pct \in SimpleDropPcts, tension_v \in SimpleVoltages,
          resistividad \in SimpleResistivities :
          call' = [ fn |-> "calcular_seccion_minima_simple",
                    corriente_a |-> corriente_a, longitud_m |-> longitud_m,
                    caida_pct |-> caida_pct, tension_v |-> tension_v,
                    resistividad_ohm_mm2_per_m |-> resistividad,
                    ret |-> calcular_seccion_minima_simple(corriente_a, longitud_m,
                                caida_pct, tension_v, resistividad) ]
    /\ UNCHANGED <<SECTIONS_CONFIG, files, batchVars>>

SpecSimple == InitStore /\ [][CalcularSeccionMinimaSimple]_vars

\* C19: calcular_seccion_minima_simple(I, L, pct, V, rho) returns
\* (rho * L * I) / (V * pct / 100) rounded to 3 decimals, for every positive
\* I, L, pct, V and rho.
C19_SimpleSection ==
    call.fn = "calcular_seccion_minima_simple" =>
        call.ret = esperado(call.corriente_a, call.longitud_m, call.caida_pct,
                            call.tension_v, call.resistividad_ohm_mm2_per_m)


-----------------------------------------------------------------------------
(* Specification SpecSwitch: a batch run while other requests of the same  *)
(* process call switch_normativa.  SECTIONS_CONFIG is a global of the      *)
(* module that the row functions read while they size a row; a step of the *)
(* model is one row, so a switch falls between two rows.                   *)

NextSwitch == Next \/ SwitchNormativa

SpecSwitch == Init /\ [][NextSwitch]_vars

\* the result of row i under a given sections config
RowUnder(sc, i) ==
    IF kind = "strings"
    THEN calculate_string_section(sc, df[i], config, circuit_type).result
    ELSE calculate_cn1_section(sc, df[i], config, circuit_type).result

\* C15: the results of a batch run depend only on the configuration and
\* the rows passed to it: a switch_normativa call made by another request
\* before or during the run changes neither the derating tables, nor the
\* commercial catalog, nor the 'normativa' reported for any row, so all rows
\* of one batch are sized under the same normative.  Every configuration of
\* ConfigChoices is resolved for IEC.
C15_BatchIsolated ==
    /\ \A i \in 1..Len(results) :
          results[i] = RowUnder(load_sections_config("IEC"), i)
    /\ \A i, j \in 1..Len(results) :
          results[i].normativa = results[j].normativa


-----------------------------------------------------------------------------
(* Specification SpecConcurrent: requests that save and load               *)
(* norm_overrides.json of one project at the same time.  Nothing locks the *)
(* file.  Here the file is held as its text, [text |-> pieces], a piece    *)
(* being what one write of the file object transfers; each writer has its  *)
(* own file offset.                                                        *)

\* ProjectNormOverrides(project_name, base_norm, modified_parameters, ...)
ProjectNormOverrides(base_norm, modified_parameters) ==
    [ base_norm |-> base_norm,
      modified_parameters |-> modified_parameters,
      version |-> "1.0" ]

\* json.dump(overrides.dict(), file): the opening with the scalar fields,
\* one piece per modified parameter, the closing
json_dump(overrides) ==
    <<[head |-> overrides.base_norm, version |-> overrides.version]>>
    \o [i \in 1..Len(overrides.modified_parameters) |->
            [parameter |-> overrides.modified_parameters[i]]]
    \o <<[tail |-> TRUE]>>

\* the text is one well-formed document
IsDocument(text) ==
    /\ Len(text) >= 2
    /\ "head" \in DOMAIN text[1]
    /\ "tail" \in DOMAIN text[Len(text)]
    /\ \A i \in 2..(Len(text) - 1) : "parameter" \in DOMAIN text[i]

\* json.load(file) followed by ProjectNormOverrides(**data)
json_load(text) ==
    IF IsDocument(text)
    THEN Ok([ base_norm |-> text[1].head,
              modified_parameters |->
                  [i \in 1..(Len(text) - 2) |-> text[i + 1].parameter],
              version |-> text[1].version ])
    ELSE Raise("JSONDecodeError")

\* what a write at an offset leaves in the file: it overwrites what is
\* there, and a gap before the offset reads as zero bytes
HOLE == [hole |-> TRUE]

RECURSIVE Holes(_)
Holes(n) == IF n = 0 THEN <<>> ELSE <<HOLE>> \o Holes(n - 1)

WriteAt(text, offset, piece) ==
    IF offset < Len(text) THEN [text EXCEPT ![offset + 1] = piece]
    ELSE text \o Holes(offset - Len(text)) \o <<piece>>

\* load_project_overrides on the text of the file: None (NO_FILE) when the
\* file is missing and when reading or parsing raises
load_text(stored) ==
    IF stored = NO_FILE THEN NO_FILE
    ELSE IF json_load(stored.text).raised THEN NO_FILE
    ELSE json_load(stored.text).value

Writers == {"w1", "w2"}

IdleRequest == [pc |-> "idle"]

diskVars == <<SECTIONS_CONFIG, config, df, circuit_type, kind, results, success_count,
              error_count, pc, string_df, project_normativa>>

InitConcurrent ==
    /\ SECTIONS_CONFIG = load_sections_config("IEC")
    /\ config = <<>> /\ df = <<>> /\ circuit_type = "dc_strings" /\ kind = "none"
    /\ results = <<>> /\ success_count = 0 /\ error_count = 0
    /\ pc = "idle" /\ string_df = <<>>
    /\ call = IdleCall
    /\ project_normativa = NO_FILE
    /\ files = INSTALLED_FILES
    /\ procs = [w \in Writers |-> IdleRequest]

\* save_project_overrides up to open(overrides_path, 'w'): the file exists
\* and is empty
SaveOpen(w) ==
    /\ procs[w].pc = "idle"
    /\ \E modified_parameters \in ModifiedParameters :
          procs' = [procs EXCEPT ![w] =
                       [ pc |-> "writing",
                         text |-> json_dump(ProjectNormOverrides("IEC",
                                                                 modified_parameters)),
                         offset |-> 0 ]]
    /\ files' = [files EXCEPT !.norm_overrides = [text |-> <<>>]]
    /\ UNCHANGED <<call, diskVars>>

\* one write of the dump
SaveWrite(w) ==
    /\ procs[w].pc = "writing"
    /\ procs[w].offset < Len(procs[w].text)
    /\ files' = [files EXCEPT !.norm_overrides =
                    [text |-> WriteAt(files.norm_overrides.text, procs[w].offset,
                                      procs[w].text[procs[w].offset + 1])]]
    /\ procs' = [procs EXCEPT ![w].offset = @ + 1]
    /\ UNCHANGED <<call, diskVars>>

\* the with block is left and save_project_overrides returns True
SaveClose(w) ==
    /\ procs[w].pc = "writing"
    /\ procs[w].offset = Len(procs[w].text)
    /\ procs' = [procs EXCEPT ![w].pc = "closed"]
    /\ call' = [fn |-> "save_project_overrides", by |-> w, ret |-> TRUE]
    /\ UNCHANGED <<files, diskVars>>

\* load_project_overrides by another request
Load ==
    /\ call' = [ fn |-> "load_project_overrides",
                 observed |-> files.norm_overrides,
                 ret |-> load_text(files.norm_overrides) ]
    /\ UNCHANGED <<files, procs, diskVars>>

NextConcurrent ==
    \/ \E w \in Writers : SaveOpen(w)
    \/ \E w \in Writers : SaveWrite(w)
    \/ \E w \in Writers : SaveClose(w)
    \/ Load

SpecConcurrent == InitConcurrent /\ [][NextConcurrent]_vars

\* the complete texts a save can write
CompleteTexts ==
    { json_dump(ProjectNormOverrides("IEC", modified_parameters)) :
      modified_parameters \in ModifiedParameters }

\* C16: when two saves, or a save and a load, of the same override file run
\* concurrently, a load never observes an empty or partially written
\* override, and the stored override afterwards equals the complete content
\* of exactly one of the saves.
C16_CriticalSection ==
    /\ (call.fn = "load_project_overrides" /\ call.observed # NO_FILE) =>
           /\ call.observed.text \in CompleteTexts
           /\ call.ret # NO_FILE
    /\ (\A w \in Writers : procs[w].pc = "closed") =>
           \E w \in Writers : files.norm_overrides.text = procs[w].text


-----------------------------------------------------------------------------
\* the failures a row can owe to the voltage-drop limits of its config
LimitFailures == {"KeyError", "ValueError: max drop"}

\* C21: before the sizing formula uses them, the voltage-drop limits are
\* always valid: for every input config (max_percentage out of range or
\* missing, reference_voltage <= 0 or missing) the values actually used
\* satisfy 0.1 <= max_percentage <= 10 and reference_voltage > 0, and the
\* row is sized with them rather than failing.
C21_LimitsValidBeforeUse ==
    \A i \in 1..Len(results) :
        /\ IsSuccess(results[i]) =>
               /\ pct_in_range(results[i].max_vdrop_pct)
               /\ RGt(results[i].reference_voltage, RInt(0))
        /\ IsFailure(results[i]) => results[i].error \notin LimitFailures


-----------------------------------------------------------------------------
\* the path without its last key
Parent(path) == SubSeq(path, 1, Len(path) - 1)

\* the leaves the override of the last call names inside a nested mapping,
\* one that lies below a key of a section
NestedNamedLeaves == { n \in NamedLeaves : Len(n[1]) >= 3 }

\* the leaves of the base that are siblings of such a leaf: same nested
\* mapping, a key the override does not name
NestedSiblings ==
    { l \in LeavesOf(call.base) :
        /\ \E n \in NestedNamedLeaves : Parent(n[1]) = Parent(l[1])
        /\ \A n \in NamedLeaves : n[1] # l[1] }

\* C22: when both the base value and the override value of a section are
\* mappings, the merge is recursive at every depth: a nested mapping of the
\* override replaces only the leaves it names and leaves the sibling keys of
\* the base at that depth unchanged.
C22_RecursiveMerge ==
    call.fn \in {"apply_overrides_to_config", "update_project_normative"} =>
        /\ \A n \in NestedNamedLeaves : At(call.ret, n[1]) = n[2]
        /\ \A l \in NestedSiblings : At(call.ret, l[1]) = l[2]


-----------------------------------------------------------------------------
(* The temperature lookup of apply_correction_factors for an ambient       *)
(* temperature that is a float.  str() of a float always carries a decimal *)
(* point ("30.0"), so the exact search by str(current_ambient) never hits  *)
(* a key of the table, whose keys are the texts of integers; the search    *)
(* goes on with the numeric comparison of the sorted keys.                 *)

\* lower keys of the consecutive pairs of sorted keys with
\* temp1 <= current_ambient <= temp2
float_bracket_lows(temps, current_ambient) ==
    {t \in temps : RLe(RInt(t), current_ambient)
                   /\ \E u \in temps : u > t /\ RLe(current_ambient, RInt(u))
                                       /\ \A w \in temps : ~(t < w /\ w < u)}

\* factor1 + (factor2 - factor1) * (current_ambient - temp1) / (temp2 - temp1)
float_interpolate(temp_values, temp1, temp2, current_ambient) ==
    RAdd(temp_values[temp1],
         RDiv(RMul(RSub(temp_values[temp2], temp_values[temp1]),
                   RSub(current_ambient, RInt(temp1))),
              RInt(temp2 - temp1)))

\* min(available_temps, key=lambda x: abs(x[0] - current_ambient)): the
\* first of the sorted keys at the least distance
float_closest(temps, current_ambient) ==
    MinOf({k \in temps :
             \A m \in temps : RLe(RAbs(RSub(RInt(k), current_ambient)),
                                  RAbs(RSub(RInt(m), current_ambient)))})

\* a lookup that never interpolates
lookup_temp_factor_float_nearest(temp_values, current_ambient) ==
    IF DOMAIN temp_values = {} THEN RInt(1)
    ELSE temp_values[float_closest(DOMAIN temp_values, current_ambient)]

lookup_temp_factor_float(temp_values, current_ambient) ==
    IF DOMAIN temp_values = {} THEN RInt(1)
    ELSE IF float_bracket_lows(DOMAIN temp_values, current_ambient) # {}
         THEN float_interpolate(temp_values,
                  MinOf(float_bracket_lows(DOMAIN temp_values, current_ambient)),
                  next_key(DOMAIN temp_values,
                           MinOf(float_bracket_lows(DOMAIN temp_values, current_ambient))),
                  current_ambient)
         ELSE temp_values[float_closest(DOMAIN temp_values, current_ambient)]

(* Specification SpecFactors: the lookups of apply_correction_factors and  *)
(* the function itself, called with arguments of bounded sets; one call    *)
(* per behaviour.                                                          *)

\* temperature_correction.values of IEC and NEC, a table with one key, a
\* table with uneven steps
TemperatureTables ==
    { IEC_NORMATIVA.temperature_correction.values,
      NEC_NORMATIVA.temperature_correction.values,
      (25 :> Pct(95)),
      (10 :> RInt(1) @@ 30 :> Pct(90) @@ 35 :> Pct(70)) }

\* ambient temperatures given as int and as float
IntTemperatures == {5, 10, 25, 30, 33, 35, 40, 45, 50, 60}
FloatTemperatures == { RInt(30), RInt(40), RInt(10), R(71, 2), R(25, 2), RInt(60),
                       R(325, 10) }

TemperatureFactorOfInt ==
    /\ call = IdleCall
    /\ \E temp_values \in TemperatureTables, current_ambient \in IntTemperatures :
          call' = [ fn |-> "temperature_factor", of |-> "int",
                    temp_values |-> temp_values,
                    current_ambient |-> RInt(current_ambient),
                    ret |-> temperature_factor([values |-> temp_values],
                                               current_ambient) ]
    /\ UNCHANGED <<SECTIONS_CONFIG, files, batchVars>>

TemperatureFactorOfFloat ==
    /\ call = IdleCall
    /\ \E temp_values \in TemperatureTables, current_ambient \in FloatTemperatures :
          call' = [ fn |-> "temperature_factor", of |-> "float",
                    temp_values |-> temp_values,
                    current_ambient |-> current_ambient,
                    ret |-> lookup_temp_factor_float(temp_values, current_ambient) ]
    /\ UNCHANGED <<SECTIONS_CONFIG, files, batchVars>>


\* a profile with two thresholds in one table, a method whose only table is
\* that of one layout, and a method without any table
TRAY_PROFILE ==
    [ grouping_factors |->
          ("tray" :>
               ("values" :> (GKey(1, FALSE) :> RInt(1) @@ GKey(3, FALSE) :> Pct(85)
                             @@ GKey(4, TRUE) :> Pct(70) @@ GKey(6, TRUE) :> Pct(50))
                @@ "multilayer" :>
                     [values |-> (GKey(1, FALSE) :> Pct(90) @@ GKey(5, FALSE) :> Pct(55))])
           @@ "air" :>
               ("touching" :> [values |-> (GKey(2, FALSE) :> Pct(88)
                                            @@ GKey(6, FALSE) :> Pct(66))])
           @@ "duct" :> ("spaced" :> [description |-> "no table"])) ]

GroupingProfiles == {IEC_NORMATIVA, NEC_NORMATIVA, TRAY_PROFILE}
GroupingMethods == {"buried", "conduit", "tray", "air", "duct", "overhead"}
GroupingLayouts == {"single_layer", "multilayer", "touching"}
MaxCircuits == 8

GetGroupingFactorSafe ==
    /\ call = IdleCall
    /\ \E normativa_config \in GroupingProfiles, number_of_circuits \in 1..MaxCircuits,
          method \in GroupingMethods, layout \in GroupingLayouts :
          call' = [ fn |-> "get_grouping_factor_safe",
                    grouping_factors |-> normativa_config.grouping_factors,
                    number_of_circuits |-> number_of_circuits,
                    method |-> method, layout |-> layout,
                    ret |-> get_grouping_factor_safe(normativa_config,
                                number_of_circuits, method, layout) ]
    /\ UNCHANGED <<SECTIONS_CONFIG, files, batchVars>>


(* validate_custom_normativa_structure: the four required sections, and at *)
(* least one method of grouping_factors with a non-empty table, its own or *)
(* that of one of its layouts                                              *)
REQUIRED_SECTIONS ==
    {"temperature_correction", "grouping_factors", "standard_sections", "voltage_drop"}

has_values(d) == "values" \in DOMAIN d /\ DOMAIN d["values"] # {}

validate_custom_normativa_structure(normativa_config) ==
    /\ REQUIRED_SECTIONS \subseteq DOMAIN normativa_config
    /\ \E method \in DOMAIN normativa_config.grouping_factors :
          \/ has_values(normativa_config.grouping_factors[method])
          \/ \E layout \in DOMAIN normativa_config.grouping_factors[method] \ {"values"} :
                has_values(normativa_config.grouping_factors[method][layout])

(* apply_correction_factors with the outcome of get_normativa_config_fixed *)
(* made explicit: loaded is Ok(profile), or Raise(e) when                  *)
(* configs/normativas.yaml cannot be opened or parsed at the time of the   *)
(* call.  The except branch returns i_nominal / 1.25, the branch of an     *)
(* invalid custom structure i_nominal * 1.25.                              *)
apply_with_loaded(normativa_used, loaded, i_nominal, cfg) ==
    IF RLe(i_nominal, RInt(0)) \/ loaded.raised
    THEN RDiv(i_nominal, SAFETY_DIVISOR)
    ELSE IF normativa_used = "PERSONALIZADA"
            /\ ~validate_custom_normativa_structure(loaded.value)
         THEN RMul(i_nominal, SAFETY_DIVISOR)
         ELSE correct_with(i_nominal, cfg, loaded.value)

\* a profile whose tables hold factors outside (0, 1.2]
FACTOR_PROFILE ==
    [ temperature_correction |->
          [ambient_design |-> 30,
           values |-> (20 :> R(3, 2) @@ 30 :> RInt(1) @@ 40 :> R(5, 2) @@ 50 :> RInt(0))],
      grouping_factors |->
          ("conduit" :>
               ("values" :> (GKey(1, FALSE) :> RInt(1) @@ GKey(2, FALSE) :> R(13, 10)
                             @@ GKey(3, FALSE) :> RInt(0) @@ GKey(4, FALSE) :> R(6, 5)))),
      standard_sections |-> IEC_NORMATIVA.standard_sections,
      voltage_drop |-> IEC_NORMATIVA.voltage_drop ]

\* a custom profile that lacks grouping_factors
INCOMPLETE_PROFILE ==
    [ temperature_correction |-> IEC_NORMATIVA.temperature_correction,
      standard_sections |-> IEC_NORMATIVA.standard_sections,
      voltage_drop |-> IEC_NORMATIVA.voltage_drop ]

\* what get_normativa_config_fixed hands to apply_correction_factors
LoadedProfiles ==
    { <<"IEC", Ok(IEC_NORMATIVA)>>, <<"NEC", Ok(NEC_NORMATIVA)>>,
      <<"IEC", Raise("OSError")>>,
      <<"PERSONALIZADA", Ok(FACTOR_PROFILE)>>,
      <<"PERSONALIZADA", Ok(INCOMPLETE_PROFILE)>>,
      <<"PERSONALIZADA", Raise("OSError")>> }

NominalCurrents == { R(25, 2), RInt(20), RInt(0), R(-25, 2) }
AmbientChoices == {20, 30, 40, 45, 50}
MaxParallel == 4

\* the config keys apply_correction_factors reads
FactorConfigs ==
    { [current_ambient |-> t, number_of_parallel_strings |-> n, method |-> "conduit"] :
      t \in AmbientChoices, n \in 1..MaxParallel }

\* the factors as read from the tables, before the final validation
raw_temp_factor(cfg, normativa_config) ==
    temperature_factor(Get(normativa_config, "temperature_correction", <<>>),
        resolve_current_ambient(cfg, Get(normativa_config, "temperature_correction", <<>>)))

raw_group_factor(cfg, normativa_config) ==
    get_grouping_factor_safe(normativa_config, Get(cfg, "number_of_parallel_strings", 1),
                             resolve_method(cfg, normativa_config),
                             resolve_layout(cfg, normativa_config))

\* the path the call takes
path_of(normativa_used, loaded, i_nominal) ==
    IF RLe(i_nominal, RInt(0)) \/ loaded.raised THEN "except"
    ELSE IF normativa_used = "PERSONALIZADA"
            /\ ~validate_custom_normativa_structure(loaded.value)
         THEN "invalid_custom"
         ELSE "normal"

ApplyCorrectionFactors ==
    /\ call = IdleCall
    /\ \E lp \in LoadedProfiles, i_nominal \in NominalCurrents, cfg \in FactorConfigs :
          call' = [ fn |-> "apply_correction_factors",
                    normativa_used |-> lp[1], loaded |-> lp[2],
                    i_nominal |-> i_nominal, config |-> cfg,
                    path |-> path_of(lp[1], lp[2], i_nominal),
                    ret |-> apply_with_loaded(lp[1], lp[2], i_nominal, cfg) ]
    /\ UNCHANGED <<SECTIONS_CONFIG, files, batchVars>>

NextFactors ==
    \/ TemperatureFactorOfInt \/ TemperatureFactorOfFloat
    \/ GetGroupingFactorSafe \/ ApplyCorrectionFactors

SpecFactors == Init /\ [][NextFactors]_vars


\* equality of two rationals
SameRat(a, b) == RLe(a, b) /\ RLe(b, a)

\* the keys of the table of the last temperature lookup, and its
\* temperature
TempKeys == DOMAIN call.temp_values
KeyEqual == {k \in TempKeys : SameRat(RInt(k), call.current_ambient)}
KeysBelow == {k \in TempKeys : RLe(RInt(k), call.current_ambient)}
KeysAbove == {k \in TempKeys : RLe(call.current_ambient, RInt(k))}

\* the value of the straight line through the two neighbouring keys
LineBetween(lo, hi) ==
    RAdd(call.temp_values[lo],
         RMul(RSub(call.temp_values[hi], call.temp_values[lo]),
              RDiv(RSub(call.current_ambient, RInt(lo)), RInt(hi - lo))))

\* C23: the temperature derating factor for ambient temperature T is the
\* table value when T is a table key; otherwise the linear interpolation
\* between the two neighbouring keys when T lies between the smallest and
\* the largest key; otherwise the factor of the nearest key.  A key given as
\* a float (30.0) yields the same factor as the key itself (30).
C23_TemperatureFactor ==
    call.fn = "temperature_factor" =>
        /\ \A k \in KeyEqual : SameRat(call.ret, call.temp_values[k])
        /\ (KeyEqual = {} /\ KeysBelow # {} /\ KeysAbove # {}) =>
               SameRat(call.ret, LineBetween(MaxOf(KeysBelow), MinOf(KeysAbove)))
        /\ (KeysBelow = {}) => SameRat(call.ret, call.temp_values[MinOf(TempKeys)])
        /\ (KeysAbove = {}) => SameRat(call.ret, call.temp_values[MaxOf(TempKeys)])

\* witness: the key 40 of the IEC table asked for as the float 40.0
C23_Witness ==
    /\ call.fn = "temperature_factor" /\ call.of = "float"
    /\ call.temp_values = IEC_NORMATIVA.temperature_correction.values
    /\ call.current_ambient = RInt(40)
    /\ call.ret = Pct(90)


\* the table the last grouping lookup has to use, by the rule of C24; a
\* table without keys when none can be resolved
GroupingOf == call.grouping_factors

LayoutsWithValues(method_data) ==
    {l \in (DOMAIN method_data) \ {"values"} : "values" \in DOMAIN method_data[l]}

ClaimedTable ==
    IF call.method \notin DOMAIN GroupingOf THEN <<>>
    ELSE IF call.layout \in LayoutsWithValues(GroupingOf[call.method])
         THEN GroupingOf[call.method][call.layout]["values"]
    ELSE IF "values" \in DOMAIN GroupingOf[call.method]
         THEN GroupingOf[call.method]["values"]
    ELSE IF LayoutsWithValues(GroupingOf[call.method]) # {}
         THEN GroupingOf[call.method][
                  CHOOSE l \in LayoutsWithValues(GroupingOf[call.method]) : TRUE]["values"]
    ELSE <<>>

PlusKeysUpTo(n) == {k[1] : k \in {kk \in DOMAIN ClaimedTable : kk[2] /\ kk[1] <= n}}
PlainKeys == {k[1] : k \in {kk \in DOMAIN ClaimedTable : ~kk[2]}}
NearestPlain(n) == {k \in PlainKeys : \A m \in PlainKeys : Abs(k - n) <= Abs(m - n)}

Replaced(raw, hi) == IF RLe(raw, RInt(0)) \/ RGt(raw, hi) THEN R(4, 5) ELSE raw

InRange(f, hi) == RGt(f, RInt(0)) /\ RLe(f, hi)

\* the last call of apply_correction_factors went through the division
Divided == call.fn = "apply_correction_factors" /\ call.path = "normal"

TableTemp == raw_temp_factor(call.config, call.loaded.value)
TableGroup == raw_group_factor(call.config, call.loaded.value)

NonPositiveNominal ==
    /\ pc \in {"loop", "done"}
    /\ RLe(RMul(Get(config, "isc_ref", RInt(0)), Get(config, "isc_correction", R(5, 4))),
           RInt(0))

-----------------------------------------------------------------------------
(* Specification SpecEndpoints: the string endpoints of the two normatives *)
(* (calculate_nec_strings and its IEC counterpart) in a process where       *)
(* other requests may call switch_normativa.  An endpoint builds its config *)
(* for its normative and calls calculate_all_strings; it does not touch    *)
(* SECTIONS_CONFIG.                                                        *)

EndpointNormatives == {"IEC", "NEC"}

\* the config build_calculation_config returns for a normative, with the
\* normative recorded in _metadata
BuiltConfig(normativa) ==
    Extend(BaseConfig(normativa), [_metadata |-> [normativa |-> normativa]])

CalculateStringsEndpoint ==
    /\ pc = "idle"
    /\ \E rows \in StringBatches, normativa \in EndpointNormatives :
          /\ df' = rows
          /\ config' = BuiltConfig(normativa)
    /\ circuit_type' = "dc_strings"
    /\ kind' = "strings"
    /\ results' = <<>> /\ success_count' = 0 /\ error_count' = 0
    /\ pc' = "loop"
    /\ UNCHANGED <<files, procs, project_normativa, SECTIONS_CONFIG, string_df, call>>

NextEndpoints ==
    CalculateStringsEndpoint \/ StepString \/ ReturnResults \/ SwitchNormativa

SpecEndpoints == Init /\ [][NextEndpoints]_vars

\* the normative the config of the running batch was built for
BuiltFor == config["_metadata"].normativa

\* C27: for a config built by build_calculation_config for normative N (IEC
\* or NEC), every result of the batch run on that config reports
\* normativa = N and is the row sized with N's derating tables and N's
\* commercial catalog, whatever the process-wide active normative is,
\* the initial one included.
C27_ConfigNormativeUsed ==
    pc \in {"loop", "done"} =>
        \A i \in 1..Len(results) :
            /\ results[i].normativa = BuiltFor
            /\ results[i] = RowUnder(load_sections_config(BuiltFor), i)


\* C28: calculate_string_section and calculate_cn1_section leave the config
\* passed by the caller unchanged, nested voltage_drop values included, for
\* every config: while a batch runs, no row changes the runner's config.
C28_ConfigUnchanged == [][pc = "loop" => config' = config]_vars


\* C29: whenever a success result's commercial section is at least its
\* theoretical section (the catalog maximum is not exceeded), its voltage
\* drop percentage is <= the maximum percentage and its voltage_status is
\* OK; WARNING and CRITICAL occur only when the theoretical section exceeds
\* the catalog maximum.
C29_StatusFollowsSection ==
    \A i \in Sized :
        /\ ~ExceedsCatalog(results[i]) =>
               /\ RLe(results[i].exact.v_drop_pct, results[i].max_vdrop_pct)
               /\ RLe(results[i].v_drop_real_pct, results[i].max_vdrop_pct)
               /\ results[i].voltage_status = "OK"
        /\ results[i].voltage_status \in {"WARNING", "CRITICAL"} =>
               ExceedsCatalog(results[i])

\* witness: a finished batch with a row within the catalog, OK, and a row
\* beyond the catalog maximum, CRITICAL
C29_Witness ==
    /\ pc = "done" /\ Len(results) = 2
    /\ \E i, j \in Sized :
          /\ ~ExceedsCatalog(results[i]) /\ results[i].voltage_status = "OK"
          /\ ExceedsCatalog(results[j]) /\ results[j].voltage_status = "CRITICAL"


\* every factor of the temperature table and of the grouping tables of a
\* profile lies in (0, 1]
UnitFactor(f) == RGt(f, RInt(0)) /\ RLe(f, RInt(1))

GroupTablesOf(method_data) ==
    (IF "values" \in DOMAIN method_data THEN {method_data["values"]} ELSE {})
    \cup {method_data[l]["values"] : l \in LayoutsWithValues(method_data)}

FactorsWithinUnit(normativa_config) ==
    /\ \A t \in DOMAIN normativa_config.temperature_correction.values :
           UnitFactor(normativa_config.temperature_correction.values[t])
    /\ \A m \in DOMAIN normativa_config.grouping_factors :
           \A tbl \in GroupTablesOf(normativa_config.grouping_factors[m]) :
               \A k \in DOMAIN tbl : UnitFactor(tbl[k])

\* the normative tables the call would read; on a failed load, those of
\* the active normative
TablesOfCall ==
    IF call.loaded.raised THEN get_normativa_config_fixed(call.normativa_used)
    ELSE call.loaded.value

\* C30: for a nominal current > 0 and normative tables whose factors all lie
\* in (0, 1], apply_correction_factors never returns a current smaller than
\* the nominal current, on any path: the normal path, the
\* invalid-custom-structure path and the error fallback path.
C30_NeverBelowNominal ==
    ( /\ call.fn = "apply_correction_factors"
      /\ RGt(call.i_nominal, RInt(0))
      /\ "grouping_factors" \in DOMAIN TablesOfCall
      /\ FactorsWithinUnit(TablesOfCall) )
    => RGe(call.ret, call.i_nominal)

=============================================================================
